---- MODULE Spec2Model ----
(***************************************************************************)
(* Model of the voice guidance engine of the Smart AI Cap dashboard        *)
(* (src/SYSTEM_ARCHITECTURE.md, "INTELLIGENT VOICE GUIDANCE SYSTEM"):      *)
(* risk and distance classification, motion inference, the per-identity    *)
(* object store, message building, the per-cycle arbitration of            *)
(* processDetections, the speak() cooldown gate and the text-reading       *)
(* channel announceText.                                                   *)
(*                                                                         *)
(* Units: times are milliseconds (Date.now()); distances are decimetres    *)
(* (distance_m * 10), so the thresholds 1.2, 3.0, 6.0 are 12, 30, 60 and   *)
(* the default 10 of "det.distance_m || 10" is 100; the ratios of the      *)
(* motion inference are IEEE 754 doubles.                                  *)
(***************************************************************************)
EXTENDS Integers, Sequences, FiniteSets, TLC

VARIABLES
    now,            \* the wall clock, Date.now()
    voiceActive,    \* STATE.voiceActive
    voiceReady,     \* voiceReady
    lastSpeechTime, \* lastSpeechTime
    objectState,    \* objectState: Map trackId -> record
    guidanceDue,    \* when the 'Guidance ready.' timer of initVoice fires (-1: not armed)
    owed,           \* history: identities at VERY_CLOSE whose alert was not spoken yet
    isDetecting,    \* STATE.isDetecting
    inFlight,       \* the /api/detect requests sent and not yet settled
    announcedTexts, \* STATE.announcedTexts, each text with the time its delete timer is due
    ocrHistory,     \* history: when each normalized text was last announced
    out             \* observation of the last operation (what it did)

\* the state of the camera page around the engine
pageVars == <<isDetecting, inFlight, announcedTexts, ocrHistory>>

vars == <<now, voiceActive, voiceReady, lastSpeechTime, objectState, guidanceDue,
          owed, isDetecting, inFlight, announcedTexts, ocrHistory, out>>

\* the page state after the script is evaluated
PageLoaded ==
    /\ isDetecting = FALSE
    /\ inFlight = 0
    /\ announcedTexts = [n \in {} |-> 0]
    /\ ocrHistory = [n \in {} |-> 0]

\* JavaScript null / undefined
Null == "<null>"

-----------------------------------------------------------------------------
(* Bounds of the model *)

\* Date.now() when the page is loaded
StartTime == 20000
\* the clock is followed for this long after the page is loaded
MaxElapsed == 12000
\* the text-reading channel is followed for this long
MaxReadElapsed == 60000
\* the longest size history given to calculateMotionStatus on its own
MaxHistory == 5
\* the largest number of detections in one batch
MaxBatch == 2
\* the largest distance given to getDistanceLevel on its own, in decimetres
MaxDistance == 70

-----------------------------------------------------------------------------
(* RISK_CATEGORIES, DISTANCE_LEVELS, VOICE_CONFIG, MOTION_CONFIG *)

HighObjects == {"car", "bus", "truck", "train", "airplane"}
MediumObjects == {"bicycle", "motorcycle", "person", "dog", "horse"}

HighPriority == 3
MediumPriority == 2
LowPriority == 1

VeryCloseThreshold == 12
NearThreshold == 30
FarThreshold == 60

VeryClosePriority == 3
NearPriority == 2
FarPriority == 1
ClearPriority == 0

globalCooldown == 8000
criticalCooldown == 3000
perObjectCooldown == 10000

minSamples == 2
sizeHistoryLength == 5

\* the stale-track window of the cleanup loop
staleWindow == 5000
\* the delay of the 'Guidance ready.' timer
guidanceDelay == 1500
\* the default of "det.distance_m || 10", in decimetres
defaultDistance == 100

-----------------------------------------------------------------------------
(* Helper functions *)

UpperLetters == "ABCDEFGHIJKLMNOPQRSTUVWXYZ"
LowerLetters == "abcdefghijklmnopqrstuvwxyz"

\* the character at position i of a string
CharAt(s, i) == SubSeq(s, i, i)

\* the lower-case form of one character
LowerChar(c) ==
    IF \E i \in 1..Len(UpperLetters) : CharAt(UpperLetters, i) = c
      THEN CharAt(LowerLetters,
                  CHOOSE i \in 1..Len(UpperLetters) : CharAt(UpperLetters, i) = c)
      ELSE c

\* the lower-case form of a string, character by character
RECURSIVE LowerString(_)
LowerString(s) ==
    IF s = "" THEN ""
    ELSE LowerChar(CharAt(s, 1)) \o LowerString(SubSeq(s, 2, Len(s)))

\* the class labels a detection can carry: the labels of RISK_CATEGORIES in
\* three spellings, some of the LOW list, and labels of no list
ListedLabels ==
    {"car", "bus", "truck", "train", "airplane",
     "bicycle", "motorcycle", "person", "dog", "horse"}
CapitalizedLabels ==
    {"Car", "Bus", "Truck", "Train", "Airplane",
     "Bicycle", "Motorcycle", "Person", "Dog", "Horse"}
UpperLabels ==
    {"CAR", "BUS", "TRUCK", "TRAIN", "AIRPLANE",
     "BICYCLE", "MOTORCYCLE", "PERSON", "DOG", "HORSE"}
OtherLabels ==
    {"chair", "Chair", "table", "potted plant", "cell phone", "tv", "TV",
     "bench", "clock", "zebra", "traffic light", "unknown", "", "cars", "ca",
     "Carpet", "trucks", "bus stop", "person ", "doghouse", "hors", "high",
     "HIGH", "0"}
ClassLabels == ListedLabels \cup CapitalizedLabels \cup UpperLabels \cup OtherLabels

\* String.prototype.toLowerCase on the class labels
lowerCaseOf == [s \in ClassLabels |-> LowerString(s)]
toLowerCase(s) == lowerCaseOf[s]

\* a classification that compares the label as it is written
getRiskCategory_caseSensitive(objectClass) ==
    LET lowerClass == objectClass
    IN  IF lowerClass \in HighObjects
          THEN [label |-> "HIGH", priority |-> HighPriority]
        ELSE IF lowerClass \in MediumObjects
          THEN [label |-> "MEDIUM", priority |-> MediumPriority]
        ELSE [label |-> "LOW", priority |-> LowPriority]

getRiskCategory(objectClass) ==
    LET lowerClass == toLowerCase(objectClass)
    IN  IF lowerClass \in HighObjects
          THEN [label |-> "HIGH", priority |-> HighPriority]
        ELSE IF lowerClass \in MediumObjects
          THEN [label |-> "MEDIUM", priority |-> MediumPriority]
        ELSE [label |-> "LOW", priority |-> LowPriority]

\* tiers whose thresholds belong to the farther tier
getDistanceLevel_exclusive(distanceM) ==
    IF distanceM < VeryCloseThreshold
      THEN [label |-> "VERY_CLOSE", priority |-> VeryClosePriority]
    ELSE IF distanceM < NearThreshold
      THEN [label |-> "NEAR", priority |-> NearPriority]
    ELSE IF distanceM < FarThreshold
      THEN [label |-> "FAR", priority |-> FarPriority]
    ELSE [label |-> "CLEAR", priority |-> ClearPriority]

getDistanceLevel(distanceM) ==
    IF distanceM <= VeryCloseThreshold
      THEN [label |-> "VERY_CLOSE", priority |-> VeryClosePriority]
    ELSE IF distanceM <= NearThreshold
      THEN [label |-> "NEAR", priority |-> NearPriority]
    ELSE IF distanceM <= FarThreshold
      THEN [label |-> "FAR", priority |-> FarPriority]
    ELSE [label |-> "CLEAR", priority |-> ClearPriority]

Abs(n) == IF n < 0 THEN 0 - n ELSE n

\* a detection carries bbox as an array <<x1, y1, x2, y2>>, or no bbox: <<>>
getBboxSize(det) ==
    IF det.bbox # <<>>
      THEN Abs((det.bbox[3] - det.bbox[1]) * (det.bbox[4] - det.bbox[2]))
      ELSE 0

RECURSIVE Sum(_)
Sum(s) == IF s = <<>> THEN 0 ELSE Head(s) + Sum(Tail(s))

-----------------------------------------------------------------------------
(* Numbers. A JavaScript number is an IEEE 754 double; a positive one is
   modelled as [hi, lo, e] with value (hi * 2^27 + lo) * 2^e and a 53-bit
   mantissa, 2^52 <= hi * 2^27 + lo < 2^53. *)

LimbBase == 2^27
MantissaLow == 2^25

\* shift the mantissa of an integer up to 53 bits
RECURSIVE Normalize(_, _)
Normalize(hi, e) ==
    IF hi >= MantissaLow THEN [hi |-> hi, lo |-> 0, e |-> e]
    ELSE IF hi < 2^13 THEN Normalize(hi * 2^12, e - 12)
    ELSE IF hi < 2^22 THEN Normalize(hi * 2^3, e - 3)
    ELSE Normalize(2 * hi, e - 1)

\* the double of a positive integer below 2^26
toDouble(n) == Normalize(n, -27)

\* mantissas and remainders are pairs [hi, lo] of value hi * 2^27 + lo
MantissaLess(a, b) == a.hi < b.hi \/ (a.hi = b.hi /\ a.lo < b.lo)

\* a - b (a >= b)
Minus(a, b) ==
    IF a.lo >= b.lo THEN [hi |-> a.hi - b.hi, lo |-> a.lo - b.lo]
    ELSE [hi |-> a.hi - b.hi - 1, lo |-> a.lo + LimbBase - b.lo]

\* k * a for a small k
Times(k, a) ==
    [hi |-> k * a.hi + (k * a.lo) \div LimbBase, lo |-> (k * a.lo) % LimbBase]

\* raise the guessed digit until the remainder is below y
RECURSIVE DigitFix(_, _, _)
DigitFix(guess, rem, y) ==
    IF MantissaLess(rem, y) THEN [digit |-> guess, rem |-> rem]
    ELSE DigitFix(guess + 1, Minus(rem, y), y)

\* the digit r16 / y for r16 = 16 * r, guessed from the high limbs
DigitGuess(r16, guess, y) == DigitFix(guess, Minus(r16, Times(guess, y)), y)

\* one hexadecimal digit of r / y (r < y), with the remainder
DivDigit(r, y) == DigitGuess(Times(16, r), (16 * r.hi) \div (y.hi + 1), y)

\* n more hexadecimal digits of the quotient q, with the remainder r
RECURSIVE DivBits(_, _, _, _)
RECURSIVE NextDigit(_, _, _, _)
DivBits(n, q, r, y) ==
    IF n = 0 THEN [q |-> q, rem |-> r]
    ELSE NextDigit(n, Times(16, q), DivDigit(r, y), y)

NextDigit(n, q16, d, y) ==
    DivBits(n - 1, [hi |-> q16.hi, lo |-> q16.lo + d.digit], d.rem, y)

\* the mantissa q + 1 when up, and the exponent after a carry out of 53 bits
RoundUp(q, up, e) ==
    IF ~up THEN [hi |-> q.hi, lo |-> q.lo, e |-> e]
    ELSE IF q.lo + 1 < LimbBase THEN [hi |-> q.hi, lo |-> q.lo + 1, e |-> e]
    ELSE IF q.hi + 1 < 2 * MantissaLow THEN [hi |-> q.hi + 1, lo |-> 0, e |-> e]
    ELSE [hi |-> MantissaLow, lo |-> 0, e |-> e + 1]

\* round to nearest, ties to even: d = the 53 quotient bits and the remainder
RoundQuotient(d, rem2, y, e) ==
    RoundUp(d.q, MantissaLess(y, rem2) \/ (rem2 = y /\ d.q.lo % 2 = 1), e)

\* the remaining 52 bits and the rounding
DivideRest(d, y, e) == RoundQuotient(d, Times(2, d.rem), y, e)

\* the first quotient bit is 1: x (or 2x) lies in [y, 2y)
DivideFrom(x, y, e) ==
    DivideRest(DivBits(13, [hi |-> 0, lo |-> 1], Minus(x, y), y), y, e)

\* x / y of two doubles: the quotient, correctly rounded
Divide(x, y) ==
    IF MantissaLess(x, y)
      THEN DivideFrom(Times(2, x), [hi |-> y.hi, lo |-> y.lo], x.e - y.e - 53)
      ELSE DivideFrom(x, [hi |-> y.hi, lo |-> y.lo], x.e - y.e - 52)

\* x < y of two doubles
Less(x, y) == x.e < y.e \/ (x.e = y.e /\ MantissaLess(x, y))

\* the literals 1.05 and 0.95: the doubles nearest to 105/100 and 95/100
approachThreshold == Divide(toDouble(105), toDouble(100))
recedeThreshold == Divide(toDouble(95), toDouble(100))

-----------------------------------------------------------------------------
(* calculateMotionStatus *)

\* flags whose stationary band includes its two thresholds
MotionOfRatio_closedBand(ratio) ==
    [isApproaching |-> ~Less(ratio, approachThreshold),
     isReceding    |-> ~Less(recedeThreshold, ratio),
     isStationary  |-> ~Less(ratio, recedeThreshold) /\ ~Less(approachThreshold, ratio)]

\* the three flags of a ratio
MotionOfRatio(ratio) ==
    [isApproaching |-> ~Less(ratio, approachThreshold),
     isReceding    |-> ~Less(recedeThreshold, ratio),
     isStationary  |-> Less(recedeThreshold, ratio) /\ Less(ratio, approachThreshold)]

\* the areas are integers and their sums are exact
calculateMotionStatus(sizeHistory) ==
    IF Len(sizeHistory) < minSamples
      THEN [isApproaching |-> FALSE, isReceding |-> FALSE, isStationary |-> TRUE]
    ELSE
      LET n == Len(sizeHistory)
          recent == SubSeq(sizeHistory, n - 1, n)
          older  == SubSeq(sizeHistory, 1, n - 2)
      IN  IF Len(older) = 0
            THEN MotionOfRatio(Divide(toDouble(recent[2]), toDouble(recent[1])))
            ELSE MotionOfRatio(
                   Divide(Divide(toDouble(Sum(recent)), toDouble(Len(recent))),
                          Divide(toDouble(Sum(older)), toDouble(Len(older)))))

-----------------------------------------------------------------------------
(* buildSmartMessage *)

\* the direction text, only for VERY_CLOSE
DirText_swapped(level, position) ==
    IF level.label = "VERY_CLOSE" /\ position = "left" THEN " on right"
    ELSE IF level.label = "VERY_CLOSE" /\ position = "right" THEN " on left"
    ELSE ""

DirText(level, position) ==
    IF level.label = "VERY_CLOSE" /\ position = "left" THEN " on left"
    ELSE IF level.label = "VERY_CLOSE" /\ position = "right" THEN " on right"
    ELSE ""

\* dirText || ' ahead'
OrAhead(dirText) == IF dirText = "" THEN " ahead" ELSE dirText

\* a FAR branch without the LOW-risk silence
FarMessage_lowSpeaks(objectClass, risk, isVehicle, isPerson, isApproaching) ==
    IF ~isApproaching THEN Null
    ELSE IF isVehicle /\ isApproaching THEN "Vehicle approaching ahead."
    ELSE IF isPerson /\ isApproaching THEN "Person approaching."
    ELSE IF isApproaching THEN objectClass \o " approaching." ELSE Null

\* the branch "if (level.label === 'FAR')"
FarMessage(objectClass, risk, isVehicle, isPerson, isApproaching) ==
    IF ~isApproaching THEN Null
    ELSE IF isVehicle /\ isApproaching THEN "Vehicle approaching ahead."
    ELSE IF isPerson /\ isApproaching THEN "Person approaching."
    ELSE IF risk.label = "LOW" THEN Null
    ELSE IF isApproaching THEN objectClass \o " approaching." ELSE Null

\* a NEAR branch that names every stationary MEDIUM object
NearMessage_namesMedium(objectClass, risk, isVehicle, isPerson, isMediumRisk, isApproaching, isStationary) ==
    IF isStationary /\ ~isApproaching THEN
        IF isVehicle THEN "Vehicle nearby."
        ELSE IF risk.label = "LOW" THEN Null
        ELSE IF isPerson THEN "Person nearby."
        ELSE objectClass \o " nearby."
    ELSE IF isApproaching THEN
        IF isVehicle THEN "Vehicle approaching. Stay alert."
        ELSE IF isPerson THEN "Person approaching."
        ELSE IF isMediumRisk THEN objectClass \o " approaching."
        ELSE "Obstacle approaching."
    ELSE IF isVehicle THEN "Vehicle nearby."
    ELSE Null

\* the branch "if (level.label === 'NEAR')"
NearMessage(objectClass, risk, isVehicle, isPerson, isMediumRisk, isApproaching, isStationary) ==
    IF isStationary /\ ~isApproaching THEN
        IF isVehicle THEN "Vehicle nearby."
        ELSE IF risk.label = "LOW" THEN Null
        ELSE IF isPerson THEN "Person nearby."
        ELSE Null
    ELSE IF isApproaching THEN
        IF isVehicle THEN "Vehicle approaching. Stay alert."
        ELSE IF isPerson THEN "Person approaching."
        ELSE IF isMediumRisk THEN objectClass \o " approaching."
        ELSE "Obstacle approaching."
    ELSE IF isVehicle THEN "Vehicle nearby."
    ELSE Null

\* a VERY_CLOSE branch that is silent for a LOW-risk object that does not move
VeryCloseMessage_silentLow(objectClass, isVehicle, isPerson, isMediumRisk, isApproaching, dirText) ==
    IF isVehicle THEN
        IF isApproaching THEN "Stop. Vehicle very close" \o dirText \o ". Moving."
        ELSE "Stop. Vehicle very close" \o dirText \o "."
    ELSE IF isPerson THEN
        IF isApproaching THEN "Careful. Person approaching" \o OrAhead(dirText) \o "."
        ELSE "Careful. Person" \o OrAhead(dirText) \o "."
    ELSE IF isMediumRisk THEN
        IF isApproaching THEN "Stop. " \o objectClass \o " approaching" \o dirText \o "."
        ELSE "Stop. " \o objectClass \o OrAhead(dirText) \o "."
    ELSE IF isApproaching THEN "Obstacle approaching" \o OrAhead(dirText) \o "."
    ELSE Null

\* the branch "if (level.label === 'VERY_CLOSE')"
VeryCloseMessage(objectClass, isVehicle, isPerson, isMediumRisk, isApproaching, dirText) ==
    IF isVehicle THEN
        IF isApproaching THEN "Stop. Vehicle very close" \o dirText \o ". Moving."
        ELSE "Stop. Vehicle very close" \o dirText \o "."
    ELSE IF isPerson THEN
        IF isApproaching THEN "Careful. Person approaching" \o OrAhead(dirText) \o "."
        ELSE "Careful. Person" \o OrAhead(dirText) \o "."
    ELSE IF isMediumRisk THEN
        \* dirText || '' is dirText
        IF isApproaching THEN "Stop. " \o objectClass \o " approaching" \o dirText \o "."
        ELSE "Stop. " \o objectClass \o OrAhead(dirText) \o "."
    ELSE IF isApproaching THEN "Obstacle approaching" \o OrAhead(dirText) \o "."
    ELSE "Obstacle" \o OrAhead(dirText) \o ". Stop."

\* a message builder that takes isStationary from the motion status as it is
buildSmartMessage_readsStationary(objectClass, risk, level, position, motionStatus) ==
    LET isVehicle == toLowerCase(objectClass) \in HighObjects
        isMediumRisk == risk.label = "MEDIUM"
        isPerson == toLowerCase(objectClass) = "person"
        isApproaching == motionStatus.isApproaching
        isStationary == motionStatus.isStationary
    IN  IF level.label = "FAR"
          THEN FarMessage(objectClass, risk, isVehicle, isPerson, isApproaching)
        ELSE IF level.label = "NEAR"
          THEN NearMessage(objectClass, risk, isVehicle, isPerson, isMediumRisk,
                           isApproaching, isStationary)
        ELSE IF level.label = "VERY_CLOSE"
          THEN VeryCloseMessage(objectClass, isVehicle, isPerson, isMediumRisk,
                                isApproaching, DirText(level, position))
        ELSE Null

buildSmartMessage(objectClass, risk, level, position, motionStatus) ==
    LET isVehicle == toLowerCase(objectClass) \in HighObjects
        isMediumRisk == risk.label = "MEDIUM"
        isPerson == toLowerCase(objectClass) = "person"
        isApproaching == motionStatus.isApproaching
        \* motionStatus?.isStationary || true
        isStationary == motionStatus.isStationary \/ TRUE
    IN  IF level.label = "FAR"
          THEN FarMessage(objectClass, risk, isVehicle, isPerson, isApproaching)
        ELSE IF level.label = "NEAR"
          THEN NearMessage(objectClass, risk, isVehicle, isPerson, isMediumRisk,
                           isApproaching, isStationary)
        ELSE IF level.label = "VERY_CLOSE"
          THEN VeryCloseMessage(objectClass, isVehicle, isPerson, isMediumRisk,
                                isApproaching, DirText(level, position))
        ELSE Null

\* a JavaScript falsy message: null or the empty string
Falsy(msg) == msg = Null \/ msg = ""

-----------------------------------------------------------------------------
(* speak *)

\* a gate that applies the critical cooldown to a normal call
CooldownRejects_swapped(priority, t, lst) ==
    LET cooldown == IF priority = "critical" THEN globalCooldown ELSE criticalCooldown
    IN  priority # "critical" /\ t - lst < cooldown

\* a gate that does not exempt a critical call
CooldownRejects_all(priority, t, lst) ==
    LET cooldown == IF priority = "critical" THEN criticalCooldown ELSE globalCooldown
    IN  t - lst < cooldown

\* the cooldown gate of speak(): true when the call is rejected
CooldownRejects(priority, t, lst) ==
    LET cooldown == IF priority = "critical" THEN criticalCooldown ELSE globalCooldown
    IN  priority # "critical" /\ t - lst < cooldown

\* a speak() that stamps the clock before the cooldown gate
speak_stampsAttempt(text, priority, t, active, lst) ==
    IF ~active \/ Falsy(text)
      THEN [spoken |-> FALSE, lastSpeechTime |-> lst, cancelled |-> FALSE, calls |-> <<>>]
    ELSE IF CooldownRejects(priority, t, lst)
      THEN [spoken |-> FALSE, lastSpeechTime |-> t, cancelled |-> FALSE, calls |-> <<>>]
    ELSE [spoken |-> TRUE, lastSpeechTime |-> t, cancelled |-> priority = "critical",
          calls |-> IF priority = "critical" THEN <<"cancel", "speak">> ELSE <<"speak">>]

\* a speak() that cancels the channel after it has queued the utterance
speak_cancelsLate(text, priority, t, active, lst) ==
    IF ~active \/ Falsy(text)
      THEN [spoken |-> FALSE, lastSpeechTime |-> lst, cancelled |-> FALSE, calls |-> <<>>]
    ELSE IF CooldownRejects(priority, t, lst)
      THEN [spoken |-> FALSE, lastSpeechTime |-> lst, cancelled |-> FALSE, calls |-> <<>>]
    ELSE [spoken |-> TRUE, lastSpeechTime |-> t, cancelled |-> priority = "critical",
          calls |-> IF priority = "critical" THEN <<"speak", "cancel">> ELSE <<"speak">>]

\* speak(text, priority) at clock t: whether it spoke, the new lastSpeechTime,
\* whether it cancelled the speech in progress, and its calls of
\* speechSynthesis in their order
speak(text, priority, t, active, lst) ==
    IF ~active \/ Falsy(text)
      THEN [spoken |-> FALSE, lastSpeechTime |-> lst, cancelled |-> FALSE, calls |-> <<>>]
    ELSE IF CooldownRejects(priority, t, lst)
      THEN [spoken |-> FALSE, lastSpeechTime |-> lst, cancelled |-> FALSE, calls |-> <<>>]
    ELSE [spoken |-> TRUE, lastSpeechTime |-> t, cancelled |-> priority = "critical",
          calls |-> IF priority = "critical" THEN <<"cancel", "speak">> ELSE <<"speak">>]

\* a text channel that goes through speak()
announceText_viaSpeak(text, t, active, lst) ==
    speak("Text says: " \o text, "normal", t, active, lst)

\* announceText(text, distance): cancels the speech in progress and speaks the
\* utterance directly; lastSpeechTime is neither read nor written
announceText(text, t, active, lst) ==
    IF ~active
      THEN [spoken |-> FALSE, lastSpeechTime |-> lst, cancelled |-> FALSE, calls |-> <<>>]
      ELSE [spoken |-> TRUE, lastSpeechTime |-> lst, cancelled |-> TRUE,
            calls |-> <<"cancel", "speak">>]

-----------------------------------------------------------------------------
(* processDetections *)

\* a reading of the distance that takes a missing distance for 0
DistanceOf_missingIsZero(det) ==
    IF det.distance_m = <<>> THEN 0 ELSE det.distance_m[1]

\* det.distance_m || 10; distance_m is <<d>>, or <<>> when the field is missing
DistanceOf(det) ==
    IF det.distance_m = <<>> \/ det.distance_m[1] = 0
      THEN defaultDistance
      ELSE det.distance_m[1]

\* a key that also tells two untracked objects apart by the size of their box
TrackIdOf_bySize(det) ==
    IF det.track_id # Null THEN det.track_id
    ELSE det.class \o "_" \o (IF det.position = Null THEN "c" ELSE det.position)
           \o (IF getBboxSize(det) > 10 THEN "_large" ELSE "_small")

\* det.track_id || `${det.class}_${det.position || 'c'}`
TrackIdOf(det) ==
    IF det.track_id # Null THEN det.track_id
    ELSE det.class \o "_" \o (IF det.position = Null THEN "c" ELSE det.position)

\* the comparator of the sort: negative when a goes before b
Compare(a, b) ==
    LET riskA == getRiskCategory(a.class).priority
        riskB == getRiskCategory(b.class).priority
    IN  IF riskB # riskA THEN riskB - riskA ELSE DistanceOf(a) - DistanceOf(b)

\* an insertion that puts d in front of the elements it ties with
RECURSIVE Insert_beforeEquals(_, _)
Insert_beforeEquals(s, d) ==
    IF s = <<>> THEN <<d>>
    ELSE IF Compare(d, Head(s)) <= 0 THEN <<d>> \o s
    ELSE <<Head(s)>> \o Insert_beforeEquals(Tail(s), d)

\* insert d into the sorted sequence s behind every element it does not precede
RECURSIVE Insert(_, _)
Insert(s, d) ==
    IF s = <<>> THEN <<d>>
    ELSE IF Compare(d, Head(s)) < 0 THEN <<d>> \o s
    ELSE <<Head(s)>> \o Insert(Tail(s), d)

\* [...detections].sort(comparator): a stable sort
RECURSIVE Sorted(_)
Sorted(dets) ==
    IF dets = <<>> THEN <<>>
    ELSE Insert(Sorted(SubSeq(dets, 1, Len(dets) - 1)), dets[Len(dets)])

\* a history that keeps its first entries when it is full
PushSize_keepsOldest(prevSizes, bboxSize) ==
    IF bboxSize > 0
      THEN LET pushed == Append(prevSizes, bboxSize)
           IN  IF Len(pushed) > sizeHistoryLength
                 THEN SubSeq(pushed, 1, sizeHistoryLength)
                 ELSE pushed
      ELSE prevSizes

\* the size history after this detection's area
PushSize(prevSizes, bboxSize) ==
    IF bboxSize > 0
      THEN LET pushed == Append(prevSizes, bboxSize)
           IN  IF Len(pushed) > sizeHistoryLength
                 THEN SubSeq(pushed, Len(pushed) - sizeHistoryLength + 1, Len(pushed))
                 ELSE pushed
      ELSE prevSizes

\* a per-object check that measures against the stale-track window
PerObjectCooldownOk_short(lastAnnounced, t) ==
    lastAnnounced = 0 \/ t - lastAnnounced > staleWindow

\* !prev?.lastAnnounced || (now - prev.lastAnnounced > perObjectCooldown)
PerObjectCooldownOk(lastAnnounced, t) ==
    lastAnnounced = 0 \/ t - lastAnnounced > perObjectCooldown

\* a trigger that holds for as long as the per-object cooldown allows
ChangeTrigger_always(isNew, levelChanged, riskChanged, approachingChanged, isApproaching) ==
    TRUE

\* a trigger on every change of the approaching flag
ChangeTrigger_anyMotionChange(isNew, levelChanged, riskChanged, approachingChanged, isApproaching) ==
    isNew \/ levelChanged \/ riskChanged \/ approachingChanged

\* (isNew || levelChanged || riskChanged || (approachingChanged && isApproaching))
ChangeTrigger(isNew, levelChanged, riskChanged, approachingChanged, isApproaching) ==
    isNew \/ levelChanged \/ riskChanged \/ (approachingChanged /\ isApproaching)

\* the score of a candidate
AnnouncePriority(level, risk) == level.priority * 10 + risk.priority

\* a candidate that is critical at NEAR whatever its risk
IsCritical_anyNear(level, risk) ==
    level.label = "VERY_CLOSE" \/ level.label = "NEAR"

\* a candidate that is critical only for a HIGH-risk object
IsCritical_highOnly(level, risk) ==
    risk.label = "HIGH" /\ (level.label = "VERY_CLOSE" \/ level.label = "NEAR")

\* isCritical of a candidate
IsCritical(level, risk) ==
    level.label = "VERY_CLOSE" \/ (risk.label = "HIGH" /\ level.label = "NEAR")

\* an arbitration that keeps every candidate
KeepBest_all(announcement, cand) == Append(announcement, cand)

\* an arbitration that keeps the first candidate
KeepBest_first(announcement, cand) ==
    IF announcement = <<>> THEN <<cand>> ELSE announcement

\* "if (!announcement || announcePriority > announcement.priority) announcement = ..."
\* the announcement is <<>> (null) or <<candidate>>
KeepBest(announcement, cand) ==
    IF announcement = <<>> \/ cand.priority > announcement[1].priority
      THEN <<cand>>
      ELSE announcement

\* a store that keeps the tiers an identity already has
StoreSet_keepsTiers(store, trackId, record) ==
    [id \in DOMAIN store \cup {trackId} |->
        IF id # trackId THEN store[id]
        ELSE IF id \in DOMAIN store
          THEN [record EXCEPT !.level = store[id].level, !.risk = store[id].risk]
        ELSE record]

\* objectState.set(trackId, record)
StoreSet(store, trackId, record) ==
    [id \in DOMAIN store \cup {trackId} |->
        IF id = trackId THEN record ELSE store[id]]

\* the size history of the detection's identity after this detection
SizesAfter(store, det) ==
    PushSize(IF TrackIdOf(det) \in DOMAIN store
               THEN store[TrackIdOf(det)].bboxSizes ELSE <<>>,
             getBboxSize(det))

\* a skip placed after objectState.set
SkipClear_afterStore(st, ids, store2, entry) ==
    [st EXCEPT !.currentIds = ids, !.store = store2, !.seen = Append(@, entry)]

\* "if (level.label === 'CLEAR') continue": only currentIds.add has run
SkipClear(st, ids, store2, entry) ==
    [st EXCEPT !.currentIds = ids, !.seen = Append(@, entry)]

\* one iteration of the for loop, given the motion status it computes;
\* st = [store, currentIds, announcement, seen]
Iteration(st, det, t, motionStatus) ==
    LET trackId == TrackIdOf(det)
        distance == DistanceOf(det)
        level == getDistanceLevel(distance)
        risk == getRiskCategory(det.class)
        position == IF det.position = Null THEN "center" ELSE det.position
        bboxSize == getBboxSize(det)
        ids == st.currentIds \cup {trackId}
        hasPrev == trackId \in DOMAIN st.store
        prev == st.store[trackId]
        prevApproaching == IF hasPrev THEN prev.isApproaching ELSE FALSE
        bboxSizes == SizesAfter(st.store, det)
        isNew == ~hasPrev
        levelChanged == hasPrev /\ prev.level.label # level.label
        riskChanged == hasPrev /\ prev.risk.label # risk.label
        approachingChanged == hasPrev /\ prevApproaching # motionStatus.isApproaching
        prevAnnounced == IF hasPrev THEN prev.lastAnnounced ELSE 0
        perObjectCooldownOk == PerObjectCooldownOk(prevAnnounced, t)
        record == [level |-> level, risk |-> risk, class |-> det.class,
                   position |-> position, distance |-> distance,
                   bboxSizes |-> bboxSizes,
                   isApproaching |-> motionStatus.isApproaching,
                   isStationary |-> motionStatus.isStationary,
                   lastSeen |-> t, lastAnnounced |-> prevAnnounced]
        store2 == StoreSet(st.store, trackId, record)
        shouldAnnounce ==
            ChangeTrigger(isNew, levelChanged, riskChanged, approachingChanged,
                          motionStatus.isApproaching) /\ perObjectCooldownOk
        msg == IF shouldAnnounce
                 THEN buildSmartMessage(det.class, risk, level, position, motionStatus)
                 ELSE Null
        cand == [trackId |-> trackId, message |-> msg,
                 priority |-> AnnouncePriority(level, risk),
                 isCritical |-> IsCritical(level, risk)]
        \* what the iteration saw and decided, for the properties
        entry == [trackId |-> trackId, level |-> level.label, risk |-> risk.label,
                  skipped |-> level.label = "CLEAR",
                  isNew |-> isNew, levelChanged |-> levelChanged,
                  riskChanged |-> riskChanged,
                  becameApproaching |-> approachingChanged /\ motionStatus.isApproaching,
                  prevAnnounced |-> prevAnnounced,
                  shouldAnnounce |-> level.label # "CLEAR" /\ shouldAnnounce,
                  message |-> IF level.label = "CLEAR" THEN Null ELSE msg,
                  priority |-> AnnouncePriority(level, risk),
                  bboxSize |-> bboxSize,
                  prevSizes |-> IF hasPrev THEN prev.bboxSizes ELSE <<>>,
                  motion |-> IF level.label = "CLEAR" THEN <<>> ELSE <<motionStatus>>,
                  det |-> det]
    IN  IF level.label = "CLEAR"
          THEN SkipClear(st, ids, store2, entry)
        ELSE IF ~shouldAnnounce \/ Falsy(msg)
          THEN [st EXCEPT !.currentIds = ids, !.store = store2,
                          !.seen = Append(@, entry)]
        ELSE [st EXCEPT !.currentIds = ids, !.store = store2,
                        !.seen = Append(@, entry),
                        !.announcement = KeepBest(@, cand)]

\* one iteration of the for loop
ProcessDet(st, det, t) ==
    Iteration(st, det, t, calculateMotionStatus(SizesAfter(st.store, det)))

\* the for loop over the sorted detections
RECURSIVE Loop(_, _, _)
Loop(st, dets, t) ==
    IF dets = <<>> THEN st ELSE Loop(ProcessDet(st, Head(dets), t), Tail(dets), t)

\* a sweep that also deletes a record last seen exactly staleWindow ago
Stale_inclusive(id, state, currentIds, t) ==
    id \notin currentIds /\ t - state.lastSeen >= staleWindow

\* the condition of the cleanup loop to delete a record
Stale(id, state, currentIds, t) ==
    id \notin currentIds /\ t - state.lastSeen > staleWindow

Cleanup(store, currentIds, t) ==
    [id \in {i \in DOMAIN store : ~Stale(i, store[i], currentIds, t)} |-> store[id]]

\* a stamp that does not look at what speak() returned
Stamp_always(store, trackId, spoken, t) ==
    IF trackId \in DOMAIN store
      THEN [store EXCEPT ![trackId].lastAnnounced = t]
      ELSE store

\* "if (spoken) { state = objectState.get(trackId); if (state) state.lastAnnounced = now }"
Stamp(store, trackId, spoken, t) ==
    IF spoken /\ trackId \in DOMAIN store
      THEN [store EXCEPT ![trackId].lastAnnounced = t]
      ELSE store

\* "if (announcement) { spoken = speak(...); if (spoken) state.lastAnnounced = now }"
\* folded over the announcement (<<>> or <<candidate>>);
\* d = [store, lastSpeechTime, log, cancelled]
RECURSIVE Dispatch(_, _, _, _)
Dispatch(d, announcement, t, active) ==
    IF announcement = <<>> THEN d
    ELSE
      LET a == Head(announcement)
          priority == IF a.isCritical THEN "critical" ELSE "normal"
          r == speak(a.message, priority, t, active, d.lastSpeechTime)
          store2 == Stamp(d.store, a.trackId, r.spoken, t)
          entry == [trackId |-> a.trackId, message |-> a.message,
                    priority |-> priority, score |-> a.priority,
                    spoken |-> r.spoken]
      IN  Dispatch([store |-> store2, lastSpeechTime |-> r.lastSpeechTime,
                    log |-> Append(d.log, entry),
                    cancelled |-> d.cancelled \/ r.cancelled,
                    calls |-> d.calls \o r.calls],
                   Tail(announcement), t, active)

\* a guard that looks at the batch only
Runs_anyVoice(active, ready, detections) == Len(detections) > 0

\* the guard "if (!STATE.voiceActive || !voiceReady || !detections?.length) return"
Runs(active, ready, detections) == active /\ ready /\ Len(detections) > 0

\* the value processDetections leaves behind: st after the loop, d after the
\* dispatch
Outcome(st, d) ==
    [ran |-> TRUE, store |-> d.store, lastSpeechTime |-> d.lastSpeechTime,
     seen |-> st.seen, log |-> d.log, cancelled |-> d.cancelled,
     calls |-> d.calls]

\* the cleanup loop and the dispatch that follow the for loop
AfterLoop(st, t, active, lst) ==
    Outcome(st, Dispatch([store |-> Cleanup(st.store, st.currentIds, t),
                          lastSpeechTime |-> lst, log |-> <<>>,
                          cancelled |-> FALSE, calls |-> <<>>],
                         st.announcement, t, active))

\* the whole of processDetections(detections) at clock t
processDetections(detections, t, active, ready, store, lst) ==
    IF ~Runs(active, ready, detections)
      THEN [ran |-> FALSE, store |-> store, lastSpeechTime |-> lst,
            seen |-> <<>>, log |-> <<>>, cancelled |-> FALSE, calls |-> <<>>]
      ELSE AfterLoop(Loop([store |-> store, currentIds |-> {},
                           announcement |-> <<>>, seen |-> <<>>],
                          Sorted(detections), t),
                     t, active, lst)

-----------------------------------------------------------------------------
(* The state machine *)

\* the empty Map
EmptyStore == [id \in {} |-> 0]

\* nothing observed: the clock moved, or the page was just loaded
Idle == [op |-> "idle", ran |-> FALSE, batch |-> 0, seen |-> <<>>, log |-> <<>>,
         cancelled |-> FALSE, calls |-> <<>>, dropped |-> {}, lastSpeechBefore |-> 0]

\* the state after the script is evaluated, before init() runs
InitAt(t) ==
    /\ now = t
    /\ voiceActive = TRUE
    /\ voiceReady = FALSE
    /\ lastSpeechTime = 0
    /\ objectState = EmptyStore
    /\ guidanceDue = -1
    /\ owed = {}
    /\ PageLoaded
    /\ out = Idle

\* the wall clock advances by d
Tick(d) ==
    /\ out = Idle
    /\ now + d <= StartTime + MaxElapsed
    /\ now' = now + d
    /\ out' = Idle
    /\ UNCHANGED pageVars
    /\ UNCHANGED <<voiceActive, voiceReady, lastSpeechTime, objectState, guidanceDue, owed>>

\* initVoice(): loadVoices() and the 'Guidance ready.' timer
InitVoice ==
    /\ out = Idle
    /\ ~voiceReady
    /\ voiceReady' = TRUE
    /\ guidanceDue' = now + guidanceDelay
    /\ out' = [Idle EXCEPT !.op = "initVoice"]
    /\ UNCHANGED pageVars
    /\ UNCHANGED <<now, voiceActive, lastSpeechTime, objectState, owed>>

\* the timer callback: speak('Guidance ready.')
GuidanceReady ==
    /\ out = Idle
    /\ guidanceDue >= 0
    /\ now >= guidanceDue
    /\ LET r == speak("Guidance ready.", "normal", now, voiceActive, lastSpeechTime)
       IN  /\ lastSpeechTime' = r.lastSpeechTime
           /\ out' = [Idle EXCEPT !.op = "guidance",
                        !.log = <<[trackId |-> Null, message |-> "Guidance ready.",
                                   priority |-> "normal", score |-> 0,
                                   spoken |-> r.spoken]>>,
                        !.cancelled = r.cancelled, !.calls = r.calls,
                        !.lastSpeechBefore = lastSpeechTime]
    /\ guidanceDue' = -1
    /\ UNCHANGED pageVars
    /\ UNCHANGED <<now, voiceActive, voiceReady, objectState, owed>>

\* the click handler of the voice toggle
ToggleVoice ==
    /\ out = Idle
    /\ voiceReady
    /\ voiceActive' = ~voiceActive
    /\ IF voiceActive'
         THEN LET r == speak("Guidance on.", "normal", now, TRUE, lastSpeechTime)
              IN  /\ lastSpeechTime' = r.lastSpeechTime
                  /\ out' = [Idle EXCEPT !.op = "toggle",
                               !.log = <<[trackId |-> Null, message |-> "Guidance on.",
                                          priority |-> "normal", score |-> 0,
                                          spoken |-> r.spoken]>>,
                               !.cancelled = r.cancelled, !.calls = r.calls,
                               !.lastSpeechBefore = lastSpeechTime]
         ELSE /\ lastSpeechTime' = lastSpeechTime
              /\ out' = [Idle EXCEPT !.op = "toggle", !.cancelled = TRUE, !.calls = <<"cancel">>,
                           !.lastSpeechBefore = lastSpeechTime]
    /\ UNCHANGED pageVars
    /\ UNCHANGED <<now, voiceReady, objectState, guidanceDue, owed>>

\* the identities that a cycle handled as new at, or changed into, VERY_CLOSE
BecameVeryClose(seen) ==
    {seen[j].trackId : j \in {k \in DOMAIN seen :
        seen[k].level = "VERY_CLOSE" /\ (seen[k].isNew \/ seen[k].levelChanged)}}

\* the identities that a cycle's dispatches named and spoke
SpokenIds(log) == {log[i].trackId : i \in {k \in DOMAIN log : log[k].spoken}}

\* the identity still has a record at tier VERY_CLOSE
StaysVeryClose(store, id) ==
    id \in DOMAIN store /\ store[id].level.label = "VERY_CLOSE"

\* the VERY_CLOSE alerts owed since an earlier cycle that the cycle did not speak
Pending(r, history) == IF history THEN owed \ SpokenIds(r.log) ELSE {}

\* the VERY_CLOSE alerts unspoken after the cycle
Unspoken(r, history) ==
    IF history THEN (owed \cup BecameVeryClose(r.seen)) \ SpokenIds(r.log) ELSE {}

\* the state after a cycle whose processDetections call returned r
CycleEffect(r, detections, history) ==
    /\ objectState' = r.store
    /\ lastSpeechTime' = r.lastSpeechTime
    /\ owed' = {id \in Unspoken(r, history) : StaysVeryClose(r.store, id)}
    /\ out' = [op |-> "cycle", ran |-> r.ran, batch |-> Len(detections),
               seen |-> r.seen, log |-> r.log, cancelled |-> r.cancelled,
               calls |-> r.calls,
               dropped |-> {id \in Pending(r, history) :
                               ~StaysVeryClose(r.store, id)},
               lastSpeechBefore |-> lastSpeechTime]

\* announceDetections(detections) -> processDetections(detections);
\* history: whether the owed VERY_CLOSE alerts are followed
Cycle(detections, history) ==
    /\ out = Idle
    /\ CycleEffect(processDetections(detections, now, voiceActive, voiceReady,
                                     objectState, lastSpeechTime),
                   detections, history)
    /\ UNCHANGED pageVars
    /\ UNCHANGED <<now, voiceActive, voiceReady, guidanceDue>>

\* announceText(text, distance): the text-reading channel speaks directly
AnnounceText(text) ==
    /\ out = Idle
    /\ LET r == announceText(text, now, voiceActive, lastSpeechTime)
       IN  /\ lastSpeechTime' = r.lastSpeechTime
           /\ out' = [Idle EXCEPT !.op = "text",
                        !.log = <<[trackId |-> Null, message |-> "Text says: " \o text,
                                   priority |-> "text", score |-> 0,
                                   spoken |-> r.spoken]>>,
                        !.cancelled = r.cancelled, !.calls = r.calls,
                        !.lastSpeechBefore = lastSpeechTime]
    /\ UNCHANGED pageVars
    /\ UNCHANGED <<now, voiceActive, voiceReady, objectState, guidanceDue, owed>>

\* the handler returns to the event loop
Return ==
    /\ out # Idle
    /\ out' = Idle
    /\ UNCHANGED pageVars
    /\ UNCHANGED <<now, voiceActive, voiceReady, lastSpeechTime, objectState,
                   guidanceDue, owed>>

\* a guard that never finds a detection running
Busy_never(detecting) == FALSE

\* "if (STATE.isDetecting) return"
Busy(detecting) == detecting

\* runDetection() up to its first await, called by the detection timer;
\* cameraReady: the camera stream is active and the video has data;
\* drawThrows: the frame capture throws before the request is sent
RunDetection(cameraReady, drawThrows) ==
    /\ out = Idle
    /\ IF Busy(isDetecting) \/ ~cameraReady
         THEN /\ UNCHANGED <<isDetecting, inFlight>>
              /\ out' = [Idle EXCEPT !.op = "runDetection"]
         ELSE IF drawThrows
           \* isDetecting = true; catch; finally isDetecting = false
           THEN /\ isDetecting' = FALSE
                /\ UNCHANGED inFlight
                /\ out' = [Idle EXCEPT !.op = "runDetection"]
           ELSE /\ isDetecting' = TRUE
                /\ inFlight' = inFlight + 1
                /\ out' = [Idle EXCEPT !.op = "runDetection", !.ran = TRUE]
    /\ UNCHANGED <<now, voiceActive, voiceReady, lastSpeechTime, objectState,
                   guidanceDue, owed, announcedTexts, ocrHistory>>

\* how a request can end: the result is handled; the response is not ok; the
\* request or response.json() rejects; handleDetectionResult throws before it
\* reaches announceDetections
Outcomes == {"ok", "notOk", "rejected", "threw"}

\* runDetection() after its await: the try block goes on with the response,
\* then catch and finally
Settle(outcome, detections) ==
    /\ out = Idle
    /\ inFlight > 0
    /\ inFlight' = inFlight - 1
    /\ isDetecting' = FALSE
    /\ IF outcome = "ok"
         THEN CycleEffect(processDetections(detections, now, voiceActive, voiceReady,
                                            objectState, lastSpeechTime),
                          detections, FALSE)
         ELSE /\ out' = [Idle EXCEPT !.op = "settled"]
              /\ UNCHANGED <<lastSpeechTime, objectState, owed>>
    /\ UNCHANGED <<now, voiceActive, voiceReady, guidanceDue, announcedTexts,
                   ocrHistory>>

-----------------------------------------------------------------------------
(* The text-reading channel: handleOCRResult *)

\* OCR_MAX_DISTANCE, in decimetres
OCR_MAX_DISTANCE == 50
\* the delay of the timer that deletes an announced text
announcedTextDelay == 30000
\* refHeightCm and focalLength = frameHeight * 0.8 of estimateTextDistance
refHeightCm == 5
focalLength == 480

\* estimateTextDistance(bbox) in decimetres, for a box given by its height;
\* <<>> is a missing box, and the result null
estimateTextDistance(bbox) ==
    IF bbox = <<>> THEN <<>>
    ELSE IF bbox[1] <= 0 THEN <<>>
    ELSE LET distanceDm == ((refHeightCm * focalLength) \div bbox[1]) \div 10
         IN  IF distanceDm < 2 THEN <<2>>
             ELSE IF distanceDm > 150 THEN <<150>> ELSE <<distanceDm>>

\* "distance !== null && distance <= OCR_MAX_DISTANCE"
InReadingRange(distance) == distance # <<>> /\ distance[1] <= OCR_MAX_DISTANCE

\* texts.filter(...): the texts with a distance of at most OCR_MAX_DISTANCE
RECURSIVE NearbyTexts(_)
NearbyTexts(texts) ==
    IF texts = <<>> THEN <<>>
    ELSE IF InReadingRange(estimateTextDistance(Head(texts).bbox))
      THEN <<Head(texts)>> \o NearbyTexts(Tail(texts))
      ELSE NearbyTexts(Tail(texts))

\* nearbyTexts.map(t => t.text).join(' ')
RECURSIVE JoinTexts(_)
JoinTexts(texts) ==
    IF texts = <<>> THEN ""
    ELSE IF Len(texts) = 1 THEN texts[1].text
    ELSE texts[1].text \o " " \o JoinTexts(Tail(texts))

RECURSIVE TrimStart(_)
TrimStart(s) ==
    IF Len(s) > 0 /\ CharAt(s, 1) = " " THEN TrimStart(SubSeq(s, 2, Len(s))) ELSE s

RECURSIVE TrimEnd(_)
TrimEnd(s) ==
    IF Len(s) > 0 /\ CharAt(s, Len(s)) = " " THEN TrimEnd(SubSeq(s, 1, Len(s) - 1)) ELSE s

\* String.prototype.trim, for texts whose only white space is the blank
Trim(s) == TrimEnd(TrimStart(s))

\* a key that keeps the case of the text
NormalizedText_keepsCase(nearbyText) == nearbyText

\* "const normalizedText = nearbyText.toLowerCase()"
NormalizedText(nearbyText) == LowerString(nearbyText)

\* the value of a Map with one more entry
Put(map, key, value) ==
    [k \in DOMAIN map \cup {key} |-> IF k = key THEN value ELSE map[k]]

\* the body of handleOCRResult for the combined nearby text; the handler
\* also writes STATE.lastOcrText and the display, which nothing reads back
HandleText(result, nearbyText, normalizedText) ==
    IF \/ result = <<>>
       \/ NearbyTexts(result) = <<>>
       \/ Len(nearbyText) < 3
       \/ normalizedText \in DOMAIN announcedTexts
      THEN /\ out' = [Idle EXCEPT !.op = "ocr", !.seen = result]
           /\ UNCHANGED <<announcedTexts, ocrHistory, lastSpeechTime>>
      ELSE LET r == announceText(nearbyText, now, voiceActive, lastSpeechTime)
           IN  /\ announcedTexts' =
                     Put(announcedTexts, normalizedText, now + announcedTextDelay)
               /\ ocrHistory' =
                     Put(ocrHistory, normalizedText,
                         IF normalizedText \in DOMAIN ocrHistory
                           THEN Append(ocrHistory[normalizedText], now)
                           ELSE <<now>>)
               /\ lastSpeechTime' = r.lastSpeechTime
               /\ out' = [Idle EXCEPT !.op = "ocr", !.ran = TRUE, !.seen = result,
                            !.log = <<[trackId |-> Null,
                                       message |-> "Text says: " \o nearbyText,
                                       priority |-> "text", score |-> 0,
                                       spoken |-> r.spoken]>>,
                            !.cancelled = r.cancelled, !.calls = r.calls,
                            !.lastSpeechBefore = lastSpeechTime]

\* handleOCRResult(result); result: the texts, each with its text and box
HandleOCRResult(result) ==
    /\ out = Idle
    /\ HandleText(result, Trim(JoinTexts(NearbyTexts(result))),
                  NormalizedText(Trim(JoinTexts(NearbyTexts(result)))))
    /\ UNCHANGED <<now, voiceActive, voiceReady, objectState, guidanceDue, owed,
                   isDetecting, inFlight>>

\* the timer callback "STATE.announcedTexts.delete(normalizedText)"
DeleteAnnounced(normalizedText) ==
    /\ out = Idle
    /\ normalizedText \in DOMAIN announcedTexts
    /\ now >= announcedTexts[normalizedText]
    /\ announcedTexts' = [k \in DOMAIN announcedTexts \ {normalizedText} |->
                             announcedTexts[k]]
    /\ out' = [Idle EXCEPT !.op = "deleteText"]
    /\ UNCHANGED <<now, voiceActive, voiceReady, lastSpeechTime, objectState,
                   guidanceDue, owed, isDetecting, inFlight, ocrHistory>>

\* the wall clock advances by d while the text channel is followed
TickOCR(d) ==
    /\ out = Idle
    /\ now + d <= StartTime + MaxReadElapsed
    /\ now' = now + d
    /\ out' = Idle
    /\ UNCHANGED pageVars
    /\ UNCHANGED <<voiceActive, voiceReady, lastSpeechTime, objectState, guidanceDue, owed>>

-----------------------------------------------------------------------------
(* The inputs *)

\* the steps of the clock between two operations
TickDeltas == {3000}

\* detections: class, track_id, position, distance_m (decimetres), bbox
Detections ==
    [class : {"car", "person"}, track_id : {Null}, position : {Null},
     distance_m : {<<10>>, <<20>>, <<>>}, bbox : {<<>>}]

BatchesOf(D) == UNION {[1..n -> D] : n \in 0..MaxBatch}

Batches == BatchesOf(Detections)

Init == InitAt(StartTime)

\* the engine with the text-reading channel, voice guidance left switched on
Next ==
    \/ \E d \in TickDeltas : Tick(d)
    \/ InitVoice
    \/ GuidanceReady
    \/ \E b \in Batches : Cycle(b, FALSE)
    \/ AnnounceText("EXIT")
    \/ Return

Spec == Init /\ [][Next]_vars

\* one person in front of the wearer, with the voice toggle of the dashboard
VoiceDetections ==
    [class : {"person"}, track_id : {Null}, position : {Null},
     distance_m : {<<10>>, <<20>>, <<>>}, bbox : {<<>>}]

VoiceBatches == BatchesOf(VoiceDetections)

NextVoice ==
    \/ \E d \in TickDeltas : Tick(d)
    \/ InitVoice
    \/ GuidanceReady
    \/ ToggleVoice
    \/ \E b \in VoiceBatches : Cycle(b, FALSE)
    \/ AnnounceText("EXIT")
    \/ Return

SpecVoice == Init /\ [][NextVoice]_vars

\* the engine alone, following the VERY_CLOSE alerts that are still owed
NextHistory ==
    \/ \E d \in TickDeltas : Tick(d)
    \/ InitVoice
    \/ GuidanceReady
    \/ \E b \in Batches : Cycle(b, TRUE)
    \/ Return

SpecHistory == Init /\ [][NextHistory]_vars

\* one tracked object whose class, distance and bounding box change between
\* the cycles; the clock steps by the per-object cooldown or a second more
TrackDeltas == {perObjectCooldown, perObjectCooldown + 1000}

TrackDetections ==
    [class : {"car", "person"}, track_id : {"t1"}, position : {Null},
     distance_m : {<<10>>, <<20>>},
     bbox : {<<>>, <<0, 0, 10, 1>>, <<0, 0, 20, 1>>}]

TrackBatches == {<<d>> : d \in TrackDetections}

NextTrack ==
    \/ \E d \in TrackDeltas : Tick(d)
    \/ InitVoice
    \/ \E b \in TrackBatches : Cycle(b, FALSE)
    \/ Return

SpecTrack == Init /\ [][NextTrack]_vars

\* one tracked object that moves in and out of the useful range
ClearDetections ==
    [class : {"car"}, track_id : {"t1"}, position : {Null},
     distance_m : {<<NearThreshold>>, <<FarThreshold>>, <<FarThreshold + 1>>,
                   <<MaxDistance>>},
     bbox : {<<0, 0, 10, 1>>, <<0, 0, 20, 1>>}]

ClearBatches == {<<d>> : d \in ClearDetections}

NextClear ==
    \/ \E d \in TickDeltas : Tick(d)
    \/ InitVoice
    \/ \E b \in ClearBatches : Cycle(b, FALSE)
    \/ Return

SpecClear == Init /\ [][NextClear]_vars

\* the detection timer and the requests it sends
DetectDetections ==
    [class : {"car", "person"}, track_id : {Null}, position : {Null},
     distance_m : {<<10>>, <<20>>}, bbox : {<<>>}]

DetectBatches == {<<d>> : d \in DetectDetections}

NextDetect ==
    \/ \E d \in TickDeltas : Tick(d)
    \/ InitVoice
    \/ \E c \in BOOLEAN, t \in BOOLEAN : RunDetection(c, t)
    \/ \E o \in Outcomes, b \in DetectBatches : Settle(o, b)
    \/ Return

SpecDetect == Init /\ [][NextDetect]_vars

\* the text channel: signs read in three spellings, near and out of range
ReadDeltas == {announcedTextDelay \div 2}

ReadTexts ==
    [text : {"EXIT", "Exit", "exit ", "No", "STOP"}, bbox : {<<12>>, <<4>>, <<>>}]

ReadResults == {<<>>} \cup {<<t>> : t \in ReadTexts}

NextRead ==
    \/ \E d \in ReadDeltas : TickOCR(d)
    \/ InitVoice
    \/ ToggleVoice
    \/ \E result \in ReadResults : HandleOCRResult(result)
    \/ \E n \in DOMAIN announcedTexts : DeleteAnnounced(n)
    \/ Return

SpecRead == Init /\ [][NextRead]_vars

\* calculateMotionStatus on its own, for every history of up to MaxHistory
\* areas that differ by five per cent or less
HistoryAreas == {19, 20, 21}

SizeHistories == UNION {[1..n -> HistoryAreas] : n \in 0..MaxHistory}

InitStatus ==
    /\ now = StartTime
    /\ voiceActive = TRUE
    /\ voiceReady = FALSE
    /\ lastSpeechTime = 0
    /\ objectState = EmptyStore
    /\ guidanceDue = -1
    /\ owed = {}
    /\ PageLoaded
    /\ \E h \in SizeHistories :
          out = [op |-> "args", sizeHistory |-> h,
                 status |-> [isApproaching |-> FALSE, isReceding |-> FALSE,
                             isStationary |-> FALSE]]

\* the call calculateMotionStatus(sizeHistory)
CalculateMotionStatus ==
    /\ out.op = "args"
    /\ out' = [out EXCEPT !.op = "calculateMotionStatus",
                          !.status = calculateMotionStatus(out.sizeHistory)]
    /\ UNCHANGED pageVars
    /\ UNCHANGED <<now, voiceActive, voiceReady, lastSpeechTime, objectState,
                   guidanceDue, owed>>

NextStatus == CalculateMotionStatus

SpecStatus == InitStatus /\ [][NextStatus]_vars

\* one person at NEAR whose bounding box has an area of 16, 17 or 18
MotionDetections ==
    [class : {"person"}, track_id : {Null}, position : {Null},
     distance_m : {<<20>>},
     bbox : {<<0, 0, 16, 1>>, <<0, 0, 17, 1>>, <<0, 0, 18, 1>>}]

MotionBatches == {<<d>> : d \in MotionDetections}

NextMotion ==
    \/ InitVoice
    \/ \E b \in MotionBatches : Cycle(b, FALSE)
    \/ Return

SpecMotion == Init /\ [][NextMotion]_vars

\* buildSmartMessage on its own: the arguments processDetections can pass
\* (risk is getRiskCategory(class)), position also missing
MessageClasses == {"car", "truck", "person", "dog", "bicycle", "chair"}

MessageLevels ==
    {getDistanceLevel(d) :
        d \in {VeryCloseThreshold, NearThreshold, FarThreshold, defaultDistance}}

MessagePositions == {"left", "center", "right", Null}

\* the values calculateMotionStatus returns
MotionStatuses ==
    {[isApproaching |-> TRUE, isReceding |-> FALSE, isStationary |-> FALSE],
     [isApproaching |-> FALSE, isReceding |-> TRUE, isStationary |-> FALSE],
     [isApproaching |-> FALSE, isReceding |-> FALSE, isStationary |-> TRUE]}

InitMessage ==
    /\ now = StartTime
    /\ voiceActive = TRUE
    /\ voiceReady = FALSE
    /\ lastSpeechTime = 0
    /\ objectState = EmptyStore
    /\ guidanceDue = -1
    /\ owed = {}
    /\ PageLoaded
    /\ \E c \in MessageClasses, lv \in MessageLevels, p \in MessagePositions,
          ms \in MotionStatuses :
          out = [op |-> "args", objectClass |-> c, risk |-> getRiskCategory(c),
                 level |-> lv, position |-> p, motionStatus |-> ms,
                 message |-> Null]

\* the call buildSmartMessage(objectClass, risk, level, position, motionStatus)
BuildSmartMessage ==
    /\ out.op = "args"
    /\ out' = [out EXCEPT !.op = "buildSmartMessage",
                          !.message = buildSmartMessage(out.objectClass, out.risk,
                                          out.level, out.position, out.motionStatus)]
    /\ UNCHANGED pageVars
    /\ UNCHANGED <<now, voiceActive, voiceReady, lastSpeechTime, objectState,
                   guidanceDue, owed>>

NextMessage == BuildSmartMessage

SpecMessage == InitMessage /\ [][NextMessage]_vars

\* getDistanceLevel on its own, for every distance from 0 to MaxDistance
InitDistance ==
    /\ now = StartTime
    /\ voiceActive = TRUE
    /\ voiceReady = FALSE
    /\ lastSpeechTime = 0
    /\ objectState = EmptyStore
    /\ guidanceDue = -1
    /\ owed = {}
    /\ PageLoaded
    /\ \E d \in 0..MaxDistance :
          out = [op |-> "args", distance |-> d, level |-> <<>>]

\* the call getDistanceLevel(distance)
GetDistanceLevel ==
    /\ out.op = "args"
    /\ out' = [out EXCEPT !.op = "getDistanceLevel",
                          !.level = <<getDistanceLevel(out.distance)>>]
    /\ UNCHANGED pageVars
    /\ UNCHANGED <<now, voiceActive, voiceReady, lastSpeechTime, objectState,
                   guidanceDue, owed>>

NextDistance == GetDistanceLevel

SpecDistance == InitDistance /\ [][NextDistance]_vars

\* getRiskCategory on its own, for every class label
InitRisk ==
    /\ now = StartTime
    /\ voiceActive = TRUE
    /\ voiceReady = FALSE
    /\ lastSpeechTime = 0
    /\ objectState = EmptyStore
    /\ guidanceDue = -1
    /\ owed = {}
    /\ PageLoaded
    /\ \E c \in ClassLabels :
          out = [op |-> "args", objectClass |-> c, risk |-> <<>>]

\* the call getRiskCategory(det.class)
GetRiskCategory ==
    /\ out.op = "args"
    /\ out' = [out EXCEPT !.op = "getRiskCategory",
                          !.risk = <<getRiskCategory(out.objectClass)>>]
    /\ UNCHANGED pageVars
    /\ UNCHANGED <<now, voiceActive, voiceReady, lastSpeechTime, objectState,
                   guidanceDue, owed>>

NextRisk == GetRiskCategory

SpecRisk == InitRisk /\ [][NextRisk]_vars

\* one object in front of the wearer at the edges of the range: touching
\* (0 m), at and just past the VERY_CLOSE threshold, or with no distance
RangeDetections ==
    [class : {"car", "chair"}, track_id : {Null}, position : {Null},
     distance_m : {<<0>>, <<VeryCloseThreshold>>, <<VeryCloseThreshold + 1>>, <<>>},
     bbox : {<<>>}]

RangeBatches == {<<d>> : d \in RangeDetections}

NextRange ==
    \/ \E d \in TickDeltas : Tick(d)
    \/ InitVoice
    \/ \E b \in RangeBatches : Cycle(b, FALSE)
    \/ Return

SpecRange == Init /\ [][NextRange]_vars

\* people at NEAR with a bounding box: untracked ones on the left, of area 10
\* or 20, and a tracked one ahead, of area 10; up to MaxBatch of them in one
\* batch
IdentityDetections ==
    [class : {"person"}, track_id : {Null}, position : {"left"},
     distance_m : {<<20>>}, bbox : {<<0, 0, 10, 1>>, <<0, 0, 20, 1>>}]
    \cup
    [class : {"person"}, track_id : {"t1"}, position : {Null, "left"},
     distance_m : {<<20>>}, bbox : {<<0, 0, 10, 1>>}]

IdentityBatches == BatchesOf(IdentityDetections)

NextIdentity ==
    \/ InitVoice
    \/ \E b \in IdentityBatches : Cycle(b, FALSE)
    \/ Return

SpecIdentity == Init /\ [][NextIdentity]_vars

\* cars and people on the left and on the right, all within the VERY_CLOSE
\* tier (0.8 m or 1.0 m) or without a distance; up to MaxBatch in one batch
OrderDetections ==
    [class : {"car", "person"}, track_id : {Null}, position : {"left", "right"},
     distance_m : {<<8>>, <<10>>, <<>>}, bbox : {<<>>}]

OrderBatches == BatchesOf(OrderDetections)

NextOrder ==
    \/ InitVoice
    \/ \E b \in OrderBatches : Cycle(b, FALSE)
    \/ Return

SpecOrder == Init /\ [][NextOrder]_vars

\* a car and a person that come and go, with or without a distance; the
\* clock steps by half the stale-track window
SweepDeltas == {staleWindow \div 2}

SweepDetections ==
    [class : {"car", "person"}, track_id : {Null}, position : {Null},
     distance_m : {<<10>>, <<>>}, bbox : {<<>>}]

SweepBatches == BatchesOf(SweepDetections)

NextSweep ==
    \/ \E d \in SweepDeltas : Tick(d)
    \/ InitVoice
    \/ \E b \in SweepBatches : Cycle(b, FALSE)
    \/ Return

SpecSweep == Init /\ [][NextSweep]_vars

\* one tracked object of any risk at VERY_CLOSE, NEAR or FAR whose bounding
\* box has area 10 or 20, with the 'Guidance ready.' announcement; the clock
\* steps by the global cooldown
PriorityDeltas == {globalCooldown}

PriorityDetections ==
    [class : {"car", "person", "chair"}, track_id : {"t1"}, position : {Null},
     distance_m : {<<10>>, <<20>>, <<50>>},
     bbox : {<<0, 0, 10, 1>>, <<0, 0, 20, 1>>}]

PriorityBatches == {<<d>> : d \in PriorityDetections}

NextPriority ==
    \/ \E d \in PriorityDeltas : Tick(d)
    \/ InitVoice
    \/ GuidanceReady
    \/ \E b \in PriorityBatches : Cycle(b, FALSE)
    \/ Return

SpecPriority == Init /\ [][NextPriority]_vars

\* the engine on a clock that starts at 0: one car or person per batch, the
\* clock steps by the stale-track window
EpochDeltas == {staleWindow}

EpochDetections ==
    [class : {"car", "person"}, track_id : {Null}, position : {Null},
     distance_m : {<<10>>, <<20>>}, bbox : {<<>>}]

EpochBatches == {<<d>> : d \in EpochDetections}

InitEpoch == InitAt(0)

NextEpoch ==
    \/ \E d \in EpochDeltas : Tick(d)
    \/ InitVoice
    \/ GuidanceReady
    \/ \E b \in EpochBatches : Cycle(b, FALSE)
    \/ Return

SpecEpoch == InitEpoch /\ [][NextEpoch]_vars

-----------------------------------------------------------------------------
(* Properties *)

\* the entries of the last cycle that were announce-eligible with a message
Eligible == {j \in DOMAIN out.seen :
                out.seen[j].shouldAnnounce /\ ~Falsy(out.seen[j].message)}

\* C1: global cooldown. With voice active, a normal-priority speak() returns
\* true exactly when at least 8000 ms have passed since lastSpeechTime (the
\* time of the last successful dispatch): it is suppressed at now - t < 8000
\* and succeeds at now - t >= 8000.
C1_GlobalCooldown ==
    \A i \in DOMAIN out.log :
        (out.log[i].priority = "normal" /\ voiceActive)
            => (out.log[i].spoken <=> now - out.lastSpeechBefore >= globalCooldown)

\* a normal alert of the engine is suppressed less than 8000 ms after a dispatch
C1_Witness ==
    /\ out.op = "cycle"
    /\ out.lastSpeechBefore >= StartTime
    /\ now - out.lastSpeechBefore > 0
    /\ now - out.lastSpeechBefore < globalCooldown
    /\ \E i \in DOMAIN out.log : out.log[i].priority = "normal" /\ ~out.log[i].spoken

C3_NeverDropped == out.dropped = {}

C5_AtMostOne == out.op = "cycle" => Len(out.log) <= 1

\* two detections of a cycle were announce-eligible and one dispatch was made
C5_Witness ==
    /\ out.op = "cycle"
    /\ Cardinality(Eligible) >= 2
    /\ Len(out.log) = 1
    /\ out.log[1].spoken

\* C6: priority arbitration. The candidate dispatched in a cycle is one of
\* the cycle's eligible candidates and has the maximum score
\* distanceTierPriority*10 + riskPriority among them; a cycle with an
\* eligible candidate dispatches one.
C6_MaxScore ==
    out.op = "cycle" =>
        /\ Eligible # {} => Len(out.log) >= 1
        /\ \A i \in DOMAIN out.log :
              /\ \E j \in Eligible :
                    /\ out.seen[j].trackId = out.log[i].trackId
                    /\ out.seen[j].priority = out.log[i].score
                    /\ out.seen[j].message = out.log[i].message
              /\ \A j \in Eligible : out.seen[j].priority <= out.log[i].score

\* a NEAR/HIGH candidate (23) loses to a VERY_CLOSE/MEDIUM candidate (32)
C6_Witness ==
    /\ out.op = "cycle"
    /\ \E j \in Eligible : out.seen[j].priority = 23
    /\ Len(out.log) = 1
    /\ out.log[1].score = 32
    /\ out.log[1].spoken

\* C7: per-object cooldown. A spoken dispatch names an identity that was
\* never announced, or whose record was last announced more than 10000 ms
\* ago: two spoken dispatches of one record are more than 10000 ms apart.
C7_PerObjectCooldown ==
    out.op = "cycle" =>
        \A i \in DOMAIN out.log :
            out.log[i].spoken =>
                \A j \in DOMAIN out.seen :
                    (out.seen[j].trackId = out.log[i].trackId /\ ~out.seen[j].skipped)
                        => \/ out.seen[j].prevAnnounced = 0
                           \/ now - out.seen[j].prevAnnounced > perObjectCooldown

\* an identity announced before is announced again, after its cooldown
C7_Witness ==
    /\ out.op = "cycle"
    /\ \E i \in DOMAIN out.log :
          /\ out.log[i].spoken
          /\ \E j \in DOMAIN out.seen :
                /\ out.seen[j].trackId = out.log[i].trackId
                /\ out.seen[j].prevAnnounced >= StartTime

\* C8: eviction and re-identity. An identity whose record was last seen more
\* than 5000 ms ago is handled as brand-new (isNew) in the cycle in which it
\* reappears at a non-CLEAR tier, whatever cycles ran in between.
C8_ReappearsAsNew ==
    [][out'.op = "cycle" =>
         \A j \in DOMAIN out'.seen :
             ( /\ ~out'.seen[j].skipped
               /\ out'.seen[j].trackId \in DOMAIN objectState
               /\ now - objectState[out'.seen[j].trackId].lastSeen > staleWindow )
                 => out'.seen[j].isNew]_vars

\* C9: purge invariant. After every cycle that ran at time now, the store
\* holds no record with now - lastSeen > 5000.
C9_Purged ==
    (out.op = "cycle" /\ out.ran) =>
        \A id \in DOMAIN objectState : now - objectState[id].lastSeen <= staleWindow

\* C10: an empty batch is a cycle in which the records age and are evicted.
\* After a cycle with an empty batch (voice active and ready) at time now,
\* no record with now - lastSeen > 5000 is left in the store.
C10_EmptyBatchEvicts ==
    (out.op = "cycle" /\ out.batch = 0 /\ voiceActive /\ voiceReady) =>
        \A id \in DOMAIN objectState : now - objectState[id].lastSeen <= staleWindow

\* the step ran a handler in which a speak() call returned true
SpeakSucceeded ==
    /\ out'.op \in {"cycle", "guidance", "toggle"}
    /\ \E i \in DOMAIN out'.log : out'.log[i].spoken

\* C11: lastSpeechTime changes only when a speak() call succeeds, and then
\* it becomes the time of that dispatch; a step whose speak() call is
\* suppressed or rejected, and every other step, leaves it unchanged.
C11_SpeechClockFrame ==
    [][IF SpeakSucceeded
         THEN lastSpeechTime' = now'
         ELSE lastSpeechTime' = lastSpeechTime]_vars

\* an alert of the engine was rejected by the cooldown after an earlier dispatch
C11_Witness ==
    /\ out.op = "cycle"
    /\ Len(out.log) = 1
    /\ ~out.log[1].spoken
    /\ out.lastSpeechBefore >= StartTime
    /\ lastSpeechTime = out.lastSpeechBefore
    /\ lastSpeechTime < now

\* C12: on a successful dispatch the record of the dispatched identity gets
\* lastAnnounced = the cycle's now; every other record keeps its lastAnnounced
\* (a record created by the cycle has none, 0), and when the dispatch is
\* suppressed, or the step is not a cycle, no record's lastAnnounced changes.
C12_AnnouncedFrame ==
    [][/\ out'.op = "cycle" => SpokenIds(out'.log) \subseteq DOMAIN objectState'
       /\ \A id \in DOMAIN objectState' :
             IF out'.op = "cycle" /\ id \in SpokenIds(out'.log)
               THEN objectState'[id].lastAnnounced = now'
             ELSE IF id \in DOMAIN objectState
               THEN objectState'[id].lastAnnounced = objectState[id].lastAnnounced
             ELSE objectState'[id].lastAnnounced = 0]_vars

\* a dispatch stamped its record while another record kept an earlier stamp
C12_Witness ==
    /\ out.op = "cycle"
    /\ \E id \in SpokenIds(out.log) : objectState[id].lastAnnounced = now
    /\ \E id \in DOMAIN objectState \ SpokenIds(out.log) :
          /\ objectState[id].lastAnnounced >= StartTime
          /\ objectState[id].lastAnnounced < now

\* C13: announce eligibility is exactly (the identity is new, or its distance
\* tier differs from the stored one, or its risk tier differs from the stored
\* one, or the stored record was not approaching and the object approaches
\* now) and (it was never announced, or now - lastAnnounced > 10000). Leaving
\* the approaching state alone does not make it eligible, and at exactly
\* now - lastAnnounced = 10000 it is not eligible. Stated for a cycle of one
\* non-CLEAR detection against the record stored before the cycle.
C13_Eligibility ==
    [][(out'.op = "cycle" /\ out'.ran /\ Len(out'.seen) = 1 /\ ~out'.seen[1].skipped) =>
         LET e == out'.seen[1]
             id == e.trackId
             known == id \in DOMAIN objectState
             rec == objectState[id]
         IN  e.shouldAnnounce <=>
               /\ \/ ~known
                  \/ rec.level.label # e.level
                  \/ rec.risk.label # e.risk
                  \/ ~rec.isApproaching /\ objectState'[id].isApproaching
               /\ \/ ~known
                  \/ rec.lastAnnounced = 0
                  \/ now' - rec.lastAnnounced > perObjectCooldown]_vars

\* a tier change exactly 10000 ms after the last announcement is not eligible
C13_Witness ==
    /\ out.op = "cycle"
    /\ Len(out.seen) = 1
    /\ ~out.seen[1].skipped
    /\ out.seen[1].levelChanged
    /\ out.seen[1].prevAnnounced >= StartTime
    /\ now - out.seen[1].prevAnnounced = perObjectCooldown
    /\ ~out.seen[1].shouldAnnounce

\* buildSmartMessage has returned for the arguments held in out
Built == out.op = "buildSmartMessage"

\* the object of the call is a person, or another MEDIUM-risk class
OtherMedium == out.risk.label = "MEDIUM" /\ out.objectClass # "person"

\* C14: VERY_CLOSE always speaks. For every risk tier, class, motion status
\* and position (left, center, right, missing), the message at distance tier
\* VERY_CLOSE is neither null nor empty.
C14_VeryCloseSpeaks ==
    (Built /\ out.level.label = "VERY_CLOSE") => ~Falsy(out.message)

\* a LOW-risk object that recedes, position missing, gets a message
C14_Witness ==
    /\ Built
    /\ out.level.label = "VERY_CLOSE"
    /\ out.risk.label = "LOW"
    /\ out.position = Null
    /\ out.motionStatus.isReceding
    /\ ~Falsy(out.message)

\* C15: FAR silence. At distance tier FAR the message is null whenever the
\* object is not approaching (stationary or receding), whatever its risk tier
\* and class, and also for a LOW-risk object that is approaching.
C15_FarSilence ==
    ( /\ Built
      /\ out.level.label = "FAR"
      /\ ~out.motionStatus.isApproaching \/ out.risk.label = "LOW" )
        => out.message = Null

\* a LOW-risk object approaching at FAR stays silent
C15_Witness ==
    /\ Built
    /\ out.level.label = "FAR"
    /\ out.risk.label = "LOW"
    /\ out.motionStatus.isApproaching
    /\ out.message = Null

\* the decision table of the tiers FAR and NEAR, stationary or approaching
FarNearTable ==
    IF out.level.label = "FAR" THEN
        IF out.motionStatus.isStationary THEN Null
        ELSE IF out.risk.label = "HIGH" THEN "Vehicle approaching ahead."
        ELSE IF out.objectClass = "person" THEN "Person approaching."
        ELSE IF OtherMedium THEN out.objectClass \o " approaching."
        ELSE Null
    ELSE IF out.motionStatus.isStationary THEN
        IF out.risk.label = "HIGH" THEN "Vehicle nearby."
        ELSE IF out.objectClass = "person" THEN "Person nearby."
        ELSE Null
    ELSE IF out.risk.label = "HIGH" THEN "Vehicle approaching. Stay alert."
    ELSE IF out.objectClass = "person" THEN "Person approaching."
    ELSE IF OtherMedium THEN out.objectClass \o " approaching."
    ELSE "Obstacle approaching."

\* C16: for the distance tiers FAR and NEAR the message is exactly the
\* decision-table output for every risk tier, person or other class,
\* stationary or approaching: FAR approaching "Vehicle approaching ahead."
\* (HIGH), "Person approaching." (person), "<class> approaching." (other
\* MEDIUM); NEAR stationary "Vehicle nearby." (HIGH), "Person nearby."
\* (person), null (other MEDIUM, LOW); NEAR approaching "Vehicle approaching.
\* Stay alert." (HIGH), "Person approaching." (person), "<class> approaching."
\* (other MEDIUM), "Obstacle approaching." (LOW).
C16_FarNearWording ==
    ( /\ Built
      /\ out.level.label \in {"FAR", "NEAR"}
      /\ out.motionStatus.isStationary \/ out.motionStatus.isApproaching )
        => out.message = FarNearTable

\* a stationary dog at NEAR is silent
C16_Witness ==
    /\ Built
    /\ out.level.label = "NEAR"
    /\ out.objectClass = "dog"
    /\ out.motionStatus.isStationary
    /\ out.message = Null

\* the suffix of the position, and the same with " ahead" for no suffix
Dir == IF out.position = "left" THEN " on left"
       ELSE IF out.position = "right" THEN " on right"
       ELSE ""

DirOrAhead == IF out.position \in {"left", "right"} THEN Dir ELSE " ahead"

\* the templates of the tier VERY_CLOSE
VeryCloseTable ==
    IF out.risk.label = "HIGH" THEN
        "Stop. Vehicle very close" \o Dir \o "."
            \o (IF out.motionStatus.isApproaching THEN " Moving." ELSE "")
    ELSE IF out.objectClass = "person" THEN
        IF out.motionStatus.isApproaching
          THEN "Careful. Person approaching" \o DirOrAhead \o "."
          ELSE "Careful. Person" \o DirOrAhead \o "."
    ELSE IF OtherMedium THEN
        IF out.motionStatus.isApproaching
          THEN "Stop. " \o out.objectClass \o " approaching" \o Dir \o "."
          ELSE "Stop. " \o out.objectClass \o DirOrAhead \o "."
    ELSE IF out.motionStatus.isApproaching
      THEN "Obstacle approaching" \o DirOrAhead \o "."
      ELSE "Obstacle" \o DirOrAhead \o ". Stop."

\* C17: VERY_CLOSE wording. The message carries " on left" / " on right"
\* exactly when the position is left / right, and " ahead" otherwise where
\* the template calls for it: HIGH "Stop. Vehicle very close<dir>." plus
\* " Moving." if approaching; person "Careful. Person approaching<dir or
\* ahead>." or "Careful. Person<dir or ahead>."; other MEDIUM "Stop. <class>
\* approaching<dir>." or "Stop. <class><dir or ahead>."; LOW "Obstacle
\* approaching<dir or ahead>." or "Obstacle<dir or ahead>. Stop.".
C17_VeryCloseWording ==
    (Built /\ out.level.label = "VERY_CLOSE") => out.message = VeryCloseTable

\* a person on the left, not approaching: "Careful. Person on left."
C17_Witness ==
    /\ Built
    /\ out.level.label = "VERY_CLOSE"
    /\ out.objectClass = "person"
    /\ out.position = "left"
    /\ ~out.motionStatus.isApproaching
    /\ out.message = "Careful. Person on left."

\* the motion status of the claim for the ratio num / den of integers
ClaimedStatus(num, den) ==
    [isApproaching |-> 100 * num >= 105 * den,
     isReceding    |-> 100 * num <= 95 * den,
     isStationary  |-> 100 * num > 95 * den /\ 100 * num < 105 * den]

\* the motion status of the claim for a size history: the ratio is
\* size[1]/size[0] for 2 samples and mean(last 2)/mean(all earlier), which is
\* (sum(last 2) * (n - 2)) / (2 * sum(earlier)), for 3 to 5 samples
ClaimedMotion(sizes) ==
    LET n == Len(sizes)
    IN  IF n < 2
          THEN [isApproaching |-> FALSE, isReceding |-> FALSE, isStationary |-> TRUE]
        ELSE IF n = 2 THEN ClaimedStatus(sizes[2], sizes[1])
        ELSE ClaimedStatus(Sum(SubSeq(sizes, n - 1, n)) * (n - 2),
                           2 * Sum(SubSeq(sizes, 1, n - 2)))

\* C18: motion inference. For a size history of positive areas the status
\* is stationary for fewer than 2 samples; for 2 samples the ratio is
\* size[1]/size[0], for 3 to 5 samples mean(last 2)/mean(all earlier);
\* ratio >= 1.05 is approaching, ratio <= 0.95 is receding, otherwise
\* stationary, the boundaries included.
C18_MotionInference ==
    out.op = "cycle" =>
        \A j \in DOMAIN out.seen :
            ~out.seen[j].skipped =>
                out.seen[j].motion[1] =
                    ClaimedMotion(objectState[out.seen[j].trackId].bboxSizes)

\* C19: every record's size history has at most 5 entries, and appending an
\* area to a history of 5 drops the oldest entry and keeps the five most
\* recent in arrival order.
C19_SizeHistoryCap ==
    /\ \A id \in DOMAIN objectState :
          Len(objectState[id].bboxSizes) <= sizeHistoryLength
    /\ out.op = "cycle" =>
          \A j \in DOMAIN out.seen :
              ( /\ ~out.seen[j].skipped
                /\ out.seen[j].bboxSize > 0
                /\ Len(out.seen[j].prevSizes) = sizeHistoryLength )
                  => objectState[out.seen[j].trackId].bboxSizes =
                         Tail(out.seen[j].prevSizes) \o <<out.seen[j].bboxSize>>

\* a sixth area, different from the oldest one, arrived for a full history
C19_Witness ==
    /\ out.op = "cycle"
    /\ Len(out.seen) = 1
    /\ ~out.seen[1].skipped
    /\ out.seen[1].bboxSize > 0
    /\ Len(out.seen[1].prevSizes) = sizeHistoryLength
    /\ out.seen[1].prevSizes[1] # out.seen[1].bboxSize
    /\ Len(objectState[out.seen[1].trackId].bboxSizes) = sizeHistoryLength

\* the tier of the claim for a distance in decimetres
ClaimedLevel(d) ==
    IF d <= 12 THEN [label |-> "VERY_CLOSE", priority |-> 3]
    ELSE IF d <= 30 THEN [label |-> "NEAR", priority |-> 2]
    ELSE IF d <= 60 THEN [label |-> "FAR", priority |-> 1]
    ELSE [label |-> "CLEAR", priority |-> 0]

\* C20: getDistanceLevel maps a distance d to VERY_CLOSE (priority 3) when
\* d <= 1.2, NEAR (2) when 1.2 < d <= 3.0, FAR (1) when 3.0 < d <= 6.0 and
\* CLEAR (0) when d > 6.0; each boundary value belongs to the closer tier.
C20_DistanceTiers ==
    out.op = "getDistanceLevel" => out.level = <<ClaimedLevel(out.distance)>>

\* the boundary 3.0 m is NEAR
C20_Witness ==
    /\ out.op = "getDistanceLevel"
    /\ out.distance = NearThreshold
    /\ out.level[1].label = "NEAR"

\* two strings that differ at most in the case of their letters
SameIgnoringCase(a, b) ==
    /\ Len(a) = Len(b)
    /\ \A i \in 1..Len(a) :
          \/ CharAt(a, i) = CharAt(b, i)
          \/ \E k \in 1..Len(UpperLetters) :
                {CharAt(a, i), CharAt(b, i)} =
                    {CharAt(UpperLetters, k), CharAt(LowerLetters, k)}

\* the label is one of the list, whatever its case
Listed(c, objects) == \E l \in objects : SameIgnoringCase(c, l)

\* the category of the claim for a class label
ClaimedRisk(c) ==
    IF Listed(c, HighObjects) THEN [label |-> "HIGH", priority |-> 3]
    ELSE IF Listed(c, MediumObjects) THEN [label |-> "MEDIUM", priority |-> 2]
    ELSE [label |-> "LOW", priority |-> 1]

\* C22: getRiskCategory returns HIGH (priority 3) for the listed vehicle
\* classes, MEDIUM (priority 2) for the listed person/animal/cycle classes and
\* LOW (priority 1) for every other class label, matching case-insensitively;
\* an unrecognized label yields LOW, never an error.
C22_RiskCategory ==
    out.op = "getRiskCategory" => out.risk = <<ClaimedRisk(out.objectClass)>>

\* a label that starts like a listed one but is not listed is LOW
C22_Witness ==
    /\ out.op = "getRiskCategory"
    /\ out.objectClass = "Carpet"
    /\ out.risk = <<[label |-> "LOW", priority |-> LowPriority]>>

\* the detection of an entry carries a distance_m of at most 1.2
AtMostVeryClose(e) ==
    e.det.distance_m # <<>> /\ e.det.distance_m[1] <= 12

\* C21: a detection whose distance_m is at most 1.2, including exactly 0, is
\* processed by the cycle as distance tier VERY_CLOSE: it is not skipped and
\* its record is created or updated.
C21_VeryCloseProcessed ==
    (out.op = "cycle" /\ out.ran) =>
        \A i \in DOMAIN out.seen :
            AtMostVeryClose(out.seen[i]) =>
                /\ ~out.seen[i].skipped
                /\ out.seen[i].level = "VERY_CLOSE"
                /\ out.seen[i].trackId \in DOMAIN objectState
                /\ objectState[out.seen[i].trackId].level.label = "VERY_CLOSE"
                /\ objectState[out.seen[i].trackId].lastSeen = now

\* every detection of the cycle that names the identity carries no distance_m
OnlyWithoutDistance(seen, id) ==
    \A k \in DOMAIN seen :
        seen[k].trackId = id => seen[k].det.distance_m = <<>>

\* the identity has the same record, or no record, before and after the step
RecordUntouched(id) ==
    /\ (id \in DOMAIN objectState') = (id \in DOMAIN objectState)
    /\ id \in DOMAIN objectState => objectState'[id] = objectState[id]

\* C23: a detection with no distance_m is treated as out of range: it is
\* classified CLEAR, skipped without an error, produces no candidate, and
\* neither creates nor modifies any record.
C23_MissingDistance ==
    [][(out'.op = "cycle" /\ out'.ran) =>
          \A i \in DOMAIN out'.seen :
              out'.seen[i].det.distance_m = <<>> =>
                  /\ out'.seen[i].level = "CLEAR"
                  /\ out'.seen[i].skipped
                  /\ ~out'.seen[i].shouldAnnounce
                  /\ out'.seen[i].message = Null
                  /\ OnlyWithoutDistance(out'.seen, out'.seen[i].trackId) =>
                        /\ RecordUntouched(out'.seen[i].trackId)
                        /\ \A k \in DOMAIN out'.log :
                              out'.log[k].trackId # out'.seen[i].trackId]_vars

\* a known car is reported without a distance, three seconds later
C23_Witness ==
    /\ out.op = "cycle" /\ out.ran
    /\ Len(out.seen) = 1
    /\ out.seen[1].det.distance_m = <<>>
    /\ out.seen[1].skipped
    /\ out.seen[1].trackId \in DOMAIN objectState
    /\ objectState[out.seen[1].trackId].lastSeen < now

\* the motion status "stationary"
Stationary == [isApproaching |-> FALSE, isReceding |-> FALSE, isStationary |-> TRUE]

\* C24: a detection whose bounding box is missing gets area 0 and its motion
\* status for that cycle is stationary, whatever the size history of its
\* identity holds (for example a history that already classifies as
\* approaching).
C24_MissingBoxStationary ==
    (out.op = "cycle" /\ out.ran) =>
        \A i \in DOMAIN out.seen :
            (out.seen[i].det.bbox = <<>> /\ ~out.seen[i].skipped) =>
                /\ out.seen[i].bboxSize = 0
                /\ out.seen[i].motion = <<Stationary>>

\* the key of the claim: the track id, or class and position
ClaimedKey(det) ==
    IF det.track_id # Null THEN det.track_id
    ELSE det.class \o "_" \o (IF det.position = Null THEN "c" ELSE det.position)

\* a detection without a track id
Untracked(det) == det.track_id = Null

\* the last five entries of a history
LastFive(sizes) ==
    IF Len(sizes) > 5 THEN SubSeq(sizes, Len(sizes) - 4, Len(sizes)) ELSE sizes

\* two detections of one batch with the same class and position, no track id
Aliased(seen) ==
    /\ Len(seen) = 2
    /\ Untracked(seen[1].det) /\ Untracked(seen[2].det)
    /\ seen[1].det.class = seen[2].det.class
    /\ seen[1].det.position = seen[2].det.position

ProcessedAs(seen, id) ==
    {k \in DOMAIN seen : seen[k].trackId = id /\ ~seen[k].skipped}

\* the last detection of the cycle processed for the identity
LastProcessed(seen, id) ==
    seen[CHOOSE k \in ProcessedAs(seen, id) :
            \A j \in ProcessedAs(seen, id) : j <= k].det

\* C26: after a cycle, the risk tier and the distance tier stored for every
\* identity processed in that cycle equal the classification of that cycle's
\* class and distance_m alone; they do not depend on the values stored before.
C26_TiersFresh ==
    (out.op = "cycle" /\ out.ran) =>
        \A i \in DOMAIN out.seen :
            ~out.seen[i].skipped =>
                /\ out.seen[i].trackId \in DOMAIN objectState
                /\ objectState[out.seen[i].trackId].risk =
                      ClaimedRisk(LastProcessed(out.seen, out.seen[i].trackId).class)
                /\ objectState[out.seen[i].trackId].level =
                      ClaimedLevel(LastProcessed(out.seen,
                                                 out.seen[i].trackId).distance_m[1])

\* the track was a car at VERY_CLOSE and is now a person at NEAR
C26_Witness ==
    /\ out.op = "cycle" /\ out.ran
    /\ Len(out.seen) = 1
    /\ out.seen[1].levelChanged /\ out.seen[1].riskChanged
    /\ objectState["t1"].level.label = "NEAR"
    /\ objectState["t1"].risk.label = "MEDIUM"

\* the distance the claim counts for a detection, in decimetres
CountedDistance(det) ==
    IF det.distance_m = <<>> THEN 100 ELSE det.distance_m[1]

\* the claimed order: risk priority descending, then distance ascending
InClaimedOrder(a, b) ==
    \/ ClaimedRisk(a.class).priority > ClaimedRisk(b.class).priority
    \/ /\ ClaimedRisk(a.class).priority = ClaimedRisk(b.class).priority
       /\ CountedDistance(a) <= CountedDistance(b)

\* the entries of a cycle that became candidates
Candidates(seen) ==
    {k \in DOMAIN seen : seen[k].shouldAnnounce /\ seen[k].message # Null}

\* the candidates with the highest score
TopCandidates(seen) ==
    {k \in Candidates(seen) :
        \A j \in Candidates(seen) : seen[j].priority <= seen[k].priority}

\* the place of a detection in the input batch
FirstIndex(batch, det) == CHOOSE k \in DOMAIN batch :
    batch[k] = det /\ \A j \in DOMAIN batch : batch[j] = det => k <= j

\* the orders in which the detections of a cycle can have been in the batch
InputsOf(seen) ==
    IF Len(seen) = 2
      THEN {<<seen[1].det, seen[2].det>>, <<seen[2].det, seen[1].det>>}
      ELSE {[k \in DOMAIN seen |-> seen[k].det]}

\* what the claim says of a cycle that examined seen and dispatched log, for
\* the input batch
OrderAndTies(batch, seen, log) ==
    /\ \A k \in 1..(Len(seen) - 1) : InClaimedOrder(seen[k].det, seen[k + 1].det)
    /\ (Candidates(seen) = {}) = (log = <<>>)
    /\ \A w \in DOMAIN log : \E k \in TopCandidates(seen) :
          /\ log[w].trackId = seen[k].trackId
          /\ log[w].message = seen[k].message
          /\ \A j \in TopCandidates(seen) :
                /\ k <= j
                /\ CountedDistance(seen[k].det) <= CountedDistance(seen[j].det)
                /\ CountedDistance(seen[k].det) = CountedDistance(seen[j].det) =>
                      FirstIndex(batch, seen[k].det) <= FirstIndex(batch, seen[j].det)

C28_CriticalInterrupts ==
    out.op = "cycle" =>
        /\ out.log = <<>> => out.calls = <<>>
        /\ \A k \in DOMAIN out.log :
              /\ (out.log[k].spoken /\ out.log[k].priority = "critical") =>
                    out.calls = <<"cancel", "speak">>
              /\ (out.log[k].spoken /\ out.log[k].priority = "normal") =>
                    out.calls = <<"speak">>
              /\ ~out.log[k].spoken => out.calls = <<>>

\* a critical alert in the very instant in which something else was spoken
C28_Witness ==
    /\ out.op = "cycle"
    /\ Len(out.log) = 1
    /\ out.log[1].spoken /\ out.log[1].priority = "critical"
    /\ out.lastSpeechBefore = now
    /\ out.calls = <<"cancel", "speak">>

\* the identities of the detections of a cycle's batch
BatchIds(seen) == {seen[k].trackId : k \in DOMAIN seen}

\* C29: a record is removed only by the end-of-cycle sweep and only when its
\* identity is absent from the current batch and now - lastSeen > 5000 (at
\* exactly 5000 it is kept); no identity present in the current batch is
\* removed in that cycle, so the record of the dispatched candidate always
\* exists when lastAnnounced is stamped.
C29_SweepOnly ==
    [][/\ \A id \in DOMAIN objectState \ DOMAIN objectState' :
             /\ out'.op = "cycle" /\ out'.ran
             /\ id \notin BatchIds(out'.seen)
             /\ now' - objectState[id].lastSeen > 5000
       /\ out'.op = "cycle" =>
             \A k \in DOMAIN out'.log :
                 out'.log[k].spoken =>
                     /\ out'.log[k].trackId \in DOMAIN objectState'
                     /\ objectState'[out'.log[k].trackId].lastAnnounced = now']_vars

\* a record last seen exactly 5000 ms ago survives a cycle without its identity
C29_Witness ==
    /\ out.op = "cycle" /\ out.ran
    /\ \E id \in DOMAIN objectState :
          /\ id \notin BatchIds(out.seen)
          /\ now - objectState[id].lastSeen = staleWindow

\* the cycle examined a detection of a new identity at VERY_CLOSE
NewVeryClose(seen) ==
    \E i \in DOMAIN seen : seen[i].isNew /\ seen[i].level = "VERY_CLOSE"

FirstOfIdentity(seen, i) ==
    \A j \in 1..(i - 1) : seen[j].trackId # seen[i].trackId

\* entry i is the last of the cycle for its identity
LastOfIdentity(seen, i) ==
    \A j \in (i + 1)..Len(seen) : seen[j].trackId # seen[i].trackId

\* the record holds the tier, the risk and the approaching flag of the entry
HoldsTiersOf(record, e) ==
    /\ record.level.label = e.level
    /\ record.risk.label = e.risk
    /\ record.isApproaching = e.motion[1].isApproaching

\* C31: announce eligibility is edge-triggered and not retried: when an
\* eligible candidate is not spoken in its cycle (it lost arbitration, or its
\* normal dispatch was suppressed by the global cooldown), its record already
\* holds the new tier, risk and approaching flag, so in the following cycles
\* the identity is not eligible again until its tier, risk or approaching flag
\* changes again or it is evicted and reappears.
C31_EdgeTriggered ==
    [][(out'.op = "cycle" /\ out'.ran) =>
          \A i \in DOMAIN out'.seen :
              ~out'.seen[i].skipped =>
                  /\ (/\ out'.seen[i].shouldAnnounce
                      /\ LastOfIdentity(out'.seen, i)
                      /\ out'.seen[i].trackId \notin SpokenIds(out'.log)) =>
                        /\ HoldsTiersOf(objectState'[out'.seen[i].trackId],
                                        out'.seen[i])
                        /\ objectState'[out'.seen[i].trackId].lastAnnounced =
                              out'.seen[i].prevAnnounced
                  /\ (/\ FirstOfIdentity(out'.seen, i)
                      /\ out'.seen[i].trackId \in DOMAIN objectState
                      /\ HoldsTiersOf(objectState[out'.seen[i].trackId],
                                      out'.seen[i])) =>
                        ~out'.seen[i].shouldAnnounce]_vars

\* an identity that was eligible and never spoken is seen again at the same
\* tier: it is not eligible
C31_Witness ==
    /\ out.op = "cycle" /\ out.ran
    /\ \E i \in DOMAIN out.seen :
          /\ ~out.seen[i].skipped
          /\ ~out.seen[i].isNew
          /\ out.seen[i].prevAnnounced = 0
          /\ ~out.seen[i].levelChanged /\ ~out.seen[i].riskChanged
          /\ ~out.seen[i].shouldAnnounce

\* the entries of a cycle from which a dispatch was built
SourcesOf(seen, dispatch) ==
    {i \in Candidates(seen) :
        /\ seen[i].trackId = dispatch.trackId
        /\ seen[i].priority = dispatch.score
        /\ seen[i].message = dispatch.message}

\* the tiers for which the claim makes a candidate critical
ClaimedCritical(e) ==
    e.level = "VERY_CLOSE" \/ (e.risk = "HIGH" /\ e.level = "NEAR")

\* C32: a candidate is dispatched with critical priority exactly when its
\* distance tier is VERY_CLOSE, or its risk tier is HIGH and its distance tier
\* is NEAR; every other candidate (FAR of any risk, NEAR with MEDIUM or LOW
\* risk) is dispatched as normal and is therefore subject to the 8000 ms
\* global cooldown.
C32_CriticalExactly ==
    out.op = "cycle" =>
        \A k \in DOMAIN out.log :
            /\ SourcesOf(out.seen, out.log[k]) # {}
            /\ \A i \in SourcesOf(out.seen, out.log[k]) :
                  /\ (out.log[k].priority = "critical") = ClaimedCritical(out.seen[i])
                  /\ ~ClaimedCritical(out.seen[i]) =>
                        /\ out.log[k].priority = "normal"
                        /\ out.log[k].spoken = (now - out.lastSpeechBefore >= 8000)

\* an approaching car at FAR is announced with normal priority
C32_Witness ==
    /\ out.op = "cycle"
    /\ Len(out.log) = 1 /\ Len(out.seen) = 1
    /\ out.seen[1].level = "FAR" /\ out.seen[1].risk = "HIGH"
    /\ out.log[1].priority = "normal"
    /\ out.log[1].spoken

\* the cycle is the first operation that speaks: the 'Guidance ready.' timer
\* has not fired and the store held no record (none can have been evicted
\* yet)
NothingSpokenBefore ==
    /\ out.op = "cycle" /\ out.ran
    /\ guidanceDue >= 0
    /\ now <= staleWindow
    /\ Len(out.seen) = 1 /\ out.seen[1].isNew
    /\ DOMAIN objectState \subseteq BatchIds(out.seen)

\* the record of a car that the cycle found was announced at clock value 0: a
\* car alone in its batch is announced, critically, when its record is made
AnnouncedAtZero(e) ==
    e.trackId = "car_c" /\ ~e.isNew /\ e.prevAnnounced = 0

NearbyMessage(objectClass, risk) ==
    IF risk.label = "HIGH" THEN "Vehicle nearby."
    ELSE IF objectClass = "person" THEN "Person nearby."
    ELSE Null

OnlyClear(seen, id) ==
    \A k \in DOMAIN seen : seen[k].trackId = id => seen[k].level = "CLEAR"

\* C35: a detection at distance tier CLEAR never creates a record, never
\* modifies an existing record (its lastSeen, tiers and size history stay
\* unchanged) and never produces a candidate.
C35_ClearSkipped ==
    [][(out'.op = "cycle" /\ out'.ran) =>
          \A i \in DOMAIN out'.seen :
              out'.seen[i].level = "CLEAR" =>
                  /\ out'.seen[i].skipped
                  /\ ~out'.seen[i].shouldAnnounce
                  /\ out'.seen[i].message = Null
                  /\ OnlyClear(out'.seen, out'.seen[i].trackId) =>
                        /\ RecordUntouched(out'.seen[i].trackId)
                        /\ \A k \in DOMAIN out'.log :
                              out'.log[k].trackId # out'.seen[i].trackId]_vars

\* a known object with a size history is seen again just beyond 6.0 m
C35_Witness ==
    /\ out.op = "cycle" /\ out.ran
    /\ Len(out.seen) = 1
    /\ out.seen[1].det.distance_m = <<FarThreshold + 1>>
    /\ out.seen[1].level = "CLEAR"
    /\ out.seen[1].trackId \in DOMAIN objectState
    /\ objectState[out.seen[1].trackId].lastSeen < now
    /\ objectState[out.seen[1].trackId].level.label = "NEAR"
    /\ Len(objectState[out.seen[1].trackId].bboxSizes) = 2

\* voice guidance is switched off, or the voice is not ready
VoiceOff == ~voiceActive \/ ~voiceReady

\* C36: while voice guidance is switched off or the voice is not ready,
\* processDetections changes nothing: the store, every record's lastSeen and
\* lastAnnounced, and lastSpeechTime are unchanged and no record is evicted;
\* speak() returns false without changing lastSpeechTime.
C36_VoiceOffFrame ==
    [][VoiceOff =>
          /\ out'.op = "cycle" =>
                /\ ~out'.ran
                /\ objectState' = objectState
                /\ lastSpeechTime' = lastSpeechTime
                /\ out'.log = <<>> /\ out'.calls = <<>>
          /\ out'.op = "guidance" =>
                /\ ~out'.log[1].spoken
                /\ lastSpeechTime' = lastSpeechTime
                /\ out'.calls = <<>>]_vars

\* guidance is switched off with a record in the store; a batch arrives when
\* the record is older than the eviction window and the record stays
C36_Witness ==
    /\ out.op = "cycle" /\ ~out.ran
    /\ out.batch > 0
    /\ ~voiceActive /\ voiceReady
    /\ \E id \in DOMAIN objectState :
          /\ now - objectState[id].lastSeen > staleWindow
          /\ objectState[id].lastAnnounced > 0

\* C37: at most one detection request is in flight at any time: runDetection
\* returns immediately while isDetecting is set, and isDetecting is cleared
\* after every request whether it succeeded, failed or threw, so detection
\* results are handled one at a time and cycles never overlap.
C37_OneInFlight ==
    [][/\ inFlight' <= 1
       /\ (out'.op = "runDetection" /\ isDetecting) =>
             /\ ~out'.ran
             /\ inFlight' = inFlight /\ isDetecting'
       /\ inFlight' < inFlight => (~isDetecting' /\ inFlight' = 0)]_vars

\* the timer fires while a request is in flight
C37_Witness ==
    /\ out.op = "runDetection" /\ ~out.ran
    /\ isDetecting /\ inFlight = 1
    /\ objectState # EmptyStore

\* the lower-cased text of an OCR result, as the claim normalizes it
ClaimedText(result) == LowerString(Trim(JoinTexts(NearbyTexts(result))))

\* the announcements of each text lie at least 30000 ms apart
AnnouncedApart(history) ==
    \A n \in DOMAIN history :
        \A i \in 1..(Len(history[n]) - 1) :
            history[n][i + 1] - history[n][i] >= 30000

\* the text was announced less than 30000 ms ago
RecentlyAnnounced(n) ==
    n \in DOMAIN ocrHistory /\ now - ocrHistory[n][Len(ocrHistory[n])] < 30000

\* C38: the text-reading channel announces a given normalized (lower-cased)
\* text at most once per 30000ms: after handleOCRResult announces a text,
\* every later OCR result with the same normalized text is ignored until
\* 30000ms have passed, after which it can be announced again.
C38_OncePerWindow ==
    [][/\ AnnouncedApart(ocrHistory')
       /\ (out'.op = "ocr" /\ RecentlyAnnounced(ClaimedText(out'.seen))) =>
             /\ ~out'.ran
             /\ out'.log = <<>> /\ out'.calls = <<>>
             /\ UNCHANGED <<announcedTexts, ocrHistory, lastSpeechTime>>]_vars

\* "Exit" is announced, "EXIT" is ignored 15000 ms later and announced again
\* 30000 ms after the first
C38_Witness ==
    /\ out.op = "ocr" /\ out.ran
    /\ out.seen = <<[text |-> "EXIT", bbox |-> <<12>>]>>
    /\ "exit" \in DOMAIN ocrHistory
    /\ Len(ocrHistory["exit"]) = 2
    /\ ocrHistory["exit"][2] - ocrHistory["exit"][1] = 30000
    /\ now = ocrHistory["exit"][2]

\* the number of flags of a motion status that are true
FlagsSet(status) ==
    (IF status.isApproaching THEN 1 ELSE 0) + (IF status.isReceding THEN 1 ELSE 0)
        + (IF status.isStationary THEN 1 ELSE 0)

\* C39: calculateMotionStatus returns exactly one of approaching, receding
\* and stationary as true for every size history of positive areas of length
\* 0 to 5.
C39_OneFlag ==
    out.op = "calculateMotionStatus" => FlagsSet(out.status) = 1

\* a history of five areas whose ratio is exactly the approach threshold
C39_Witness ==
    /\ out.op = "calculateMotionStatus"
    /\ out.sizeHistory = <<20, 20, 20, 21, 21>>
    /\ out.status.isApproaching
    /\ ~out.status.isStationary

====
